---- MODULE Spec2Model ----
(***************************************************************************)
(* A model of the code_reviewer package: the response validation of        *)
(* code_reviewer.py, the file analysis of ast_analyzer.py, the test        *)
(* placement of test_generator.py and the diff reading of git_analyzer.py. *)
(*                                                                         *)
(* Python values are tagged records ([k |-> kind, ...]); a Python call     *)
(* that may raise evaluates to Ok(value) or Raise(exception name).         *)
(* Text is a sequence of tokens, each token an indivisible run of          *)
(* characters (a fence marker, a fence label, white space, a JSON          *)
(* document, other characters).                                            *)
(***************************************************************************)
EXTENDS Integers, Sequences, FiniteSets, TLC

VARIABLES
    reply,      \* the reasoning engine's reply to the current review
    outcome,    \* what the review returned (or raised) to its caller
    file,       \* the file handed to analyze_file
    report,     \* the FileAnalysis analyze_file returned
    fs,         \* the file system of test files: path -> content or NoFile
    call,       \* the last sequential write_test_to_file call and its result
    w,          \* the concurrent write_test_to_file calls, step by step
    repo,       \* the repository state seen by get_staged_diff
    diffs,      \* the list of DiffInfo get_staged_diff returned
    brief,      \* a review step by step: its change list, contexts, prompt
    scan,       \* the test corpus scanned for patterns and what was found
    target      \* a source path and the test file path derived from it

vars == <<reply, outcome, file, report, fs, call, w, repo, diffs, brief, scan, target>>

----------------------------------------------------------------------------
(* Python values and exceptions *)

Ok(v) == [ok |-> TRUE, v |-> v]
Raise(e) == [ok |-> FALSE, exc |-> e]

Absent == [k |-> "absent"]
PyNone == [k |-> "null"]
PyInt(n) == [k |-> "int", n |-> n]
PyFloat(t) == [k |-> "float", tenths |-> t]
PyStr(s) == [k |-> "str", s |-> s]
PyText(toks) == [k |-> "text", toks |-> toks]
PyList(xs) == [k |-> "list", items |-> xs]
PyDict(f) == [k |-> "obj", f |-> f]

IsStr(v) == v.k \in {"str", "text"}

\* dict.get(key, default): a key the dict does not hold gives the default
Get(d, key, default) ==
    IF key \in DOMAIN d.f /\ d.f[key] # Absent THEN d.f[key] ELSE default

\* bool(v)
Truthy(v) ==
    CASE v.k = "null" -> FALSE
      [] v.k = "int" -> v.n # 0
      [] v.k = "float" -> v.tenths # 0
      [] v.k = "str" -> v.s # ""
      [] v.k = "text" -> Len(v.toks) > 0
      [] v.k = "list" -> Len(v.items) > 0
      [] v.k = "obj" -> \E key \in DOMAIN v.f : v.f[key] # Absent
      [] OTHER -> FALSE

\* int(v): truncation toward zero of a float, a numeral string parsed
PyIntOf(v) ==
    CASE v.k = "int" -> Ok(v.n)
      [] v.k = "float" ->
            Ok(IF v.tenths >= 0 THEN v.tenths \div 10 ELSE -((-v.tenths) \div 10))
      [] v.k = "str" -> IF v.s = "85" THEN Ok(85) ELSE Raise("ValueError")
      [] v.k = "text" -> Raise("ValueError")
      [] OTHER -> Raise("TypeError")

\* str(v)
PyStrOf(v) ==
    CASE v.k \in {"str", "text"} -> v
      [] v.k = "int" -> PyStr(ToString(v.n))
      [] v.k = "null" -> PyStr("None")
      [] OTHER -> PyStr("<repr>")

----------------------------------------------------------------------------
(* Text *)

Fence == [t |-> "fence"]       \* ```
Label == [t |-> "label"]       \* json
Ws == [t |-> "ws"]             \* a newline
Junk == [t |-> "junk"]         \* characters that are no JSON
Doc(v) == [t |-> "doc", v |-> v]   \* the JSON text of the value v

\* s[i:j] for 0 <= i, any j (a negative j counts from the end)
PySlice(s, i, j) ==
    LET e0 == IF j < 0 THEN Len(s) + j ELSE j
        e == IF e0 > Len(s) THEN Len(s) ELSE e0
    IN IF i >= e THEN <<>> ELSE SubSeq(s, i + 1, e)

\* s.find(pat, start): the 0-based index of the first occurrence, or -1
Find(s, pat, start) ==
    LET hits == {i \in start .. (Len(s) - Len(pat)) :
                    \A j \in 1 .. Len(pat) : s[i + j] = pat[j]}
    IN IF hits = {} THEN -1 ELSE CHOOSE i \in hits : \A h \in hits : i <= h

\* pat in s
Contains(s, pat) == Find(s, pat, 0) # -1

\* s.strip()
Strip(s) ==
    LET keep == {i \in 1 .. Len(s) : s[i] # Ws}
    IN IF keep = {} THEN <<>>
       ELSE SubSeq(s, CHOOSE i \in keep : \A h \in keep : i <= h,
                      CHOOSE i \in keep : \A h \in keep : i >= h)

\* "\n".join(texts)
RECURSIVE JoinLines(_)
JoinLines(texts) ==
    IF Len(texts) = 0 THEN <<>>
    ELSE IF Len(texts) = 1 THEN texts[1]
    ELSE texts[1] \o <<Ws>> \o JoinLines(Tail(texts))

\* json.loads(s): white space around one JSON document
JsonLoads(s) ==
    LET core == Strip(s)
    IN IF Len(core) = 1 /\ core[1].t = "doc" THEN Ok(core[1].v)
       ELSE Raise("JSONDecodeError")

----------------------------------------------------------------------------
(* code_reviewer.py: the response validation *)

SummaryLimit == 500

ReviewResult(score, issues, summary, recs) ==
    [overall_score |-> score, issues |-> issues, summary |-> summary,
     recommendations |-> recs, diff_analyzed |-> ""]

\* critical_issues_count with the severity compared without regard to case
CriticalIssuesCountAnyCase(r) ==
    Len(SelectSeq(r.issues,
                  LAMBDA issue : issue.severity \in {PyStr("CRITICAL"), PyStr("critical")}))

\* ReviewResult.critical_issues_count
CriticalIssuesCount(r) ==
    Len(SelectSeq(r.issues, LAMBDA issue : issue.severity = PyStr("CRITICAL")))

\* ReviewResult.high_issues_count
HighIssuesCount(r) ==
    Len(SelectSeq(r.issues, LAMBDA issue : issue.severity = PyStr("HIGH")))

\* ReviewResult.total_issues_count
TotalIssuesCount(r) == Len(r.issues)

\* ReviewIssue(...) with LOW as the severity of an item that names none
ReviewIssueDefaultLow(issue) ==
    [severity |-> Get(issue, "severity", PyStr("LOW")),
     file_path |-> Get(issue, "file_path", PyStr("")),
     line_number |-> Get(issue, "line_number", PyNone),
     category |-> Get(issue, "category", PyStr("quality")),
     description |-> Get(issue, "description", PyStr("")),
     suggestion |-> Get(issue, "suggestion", PyStr("")),
     code_example |-> Get(issue, "code_example", PyNone)]

\* ReviewIssue(severity=issue.get("severity", "MEDIUM"), ...)
ReviewIssue(issue) ==
    [severity |-> Get(issue, "severity", PyStr("MEDIUM")),
     file_path |-> Get(issue, "file_path", PyStr("")),
     line_number |-> Get(issue, "line_number", PyNone),
     category |-> Get(issue, "category", PyStr("quality")),
     description |-> Get(issue, "description", PyStr("")),
     suggestion |-> Get(issue, "suggestion", PyStr("")),
     code_example |-> Get(issue, "code_example", PyNone)]

\* [ReviewIssue(...) for issue in items]: an item that is no dict has no get
IssueList(items) ==
    IF \E i \in 1 .. Len(items) : items[i].k # "obj"
    THEN Raise("AttributeError")
    ELSE Ok([i \in 1 .. Len(items) |-> ReviewIssue(items[i])])

\* the values a for loop draws from v, or the exception iter(v) raises
Iterate(v) ==
    CASE v.k = "list" -> Ok(v.items)
      [] v.k = "str" /\ v.s = "" -> Ok(<<>>)
      [] v.k = "str" -> Ok(<<PyStr("<char>")>>)
      [] v.k = "text" -> Ok([i \in 1 .. Len(v.toks) |-> PyStr("<char>")])
      [] v.k = "obj" ->
            Ok(IF Truthy(v) THEN <<PyStr("<key>")>> ELSE <<>>)
      [] OTHER -> Raise("TypeError")

BuildReviewResult(payload) ==
    IF payload.k # "obj" THEN Raise("AttributeError")
    ELSE
      LET issues_field == Get(payload, "issues", PyNone)
          issue_payloads ==
              IF issues_field.k = "list" THEN issues_field.items ELSE <<>>
          issues == IssueList(issue_payloads)
          recs_field == Get(payload, "recommendations", PyNone)
          recommendations ==
              IF recs_field.k = "list"
              THEN [i \in 1 .. Len(recs_field.items) |-> PyStrOf(recs_field.items[i])]
              ELSE <<>>
          score == PyIntOf(Get(payload, "overall_score", PyInt(50)))
      IN IF ~issues.ok THEN issues
         ELSE IF ~score.ok THEN score
         ELSE Ok(ReviewResult(PyInt(score.v), issues.v,
                              Get(payload, "summary", PyStr("")),
                              PyList(recommendations)))

\* the text json.loads is given: the labelled fence, else any fence, else all
JsonText(response_text) ==
    IF Contains(response_text, <<Fence, Label>>)
    THEN LET start == Find(response_text, <<Fence, Label>>, 0) + 2
             end == Find(response_text, <<Fence>>, start)
         IN Strip(PySlice(response_text, start, end))
    ELSE IF Contains(response_text, <<Fence>>)
    THEN LET start == Find(response_text, <<Fence>>, 0) + 1
             end == Find(response_text, <<Fence>>, start)
         IN Strip(PySlice(response_text, start, end))
    ELSE response_text

\* the fallback result with the whole reply as its summary
ParseFallbackWholeReply(response_text) ==
    ReviewResult(PyInt(50), <<>>,
                 PyText(response_text),
                 PyList(<<PyStr("Unable to parse structured review. See summary for details.")>>))

ParseFallback(response_text) ==
    ReviewResult(PyInt(50), <<>>,
                 PyText(PySlice(response_text, 0, SummaryLimit)),
                 PyList(<<PyStr("Unable to parse structured review. See summary for details.")>>))

ParseReviewResponse(response_text) ==
    LET data == JsonLoads(JsonText(response_text))
    IN IF ~data.ok THEN Ok(ParseFallback(response_text))
       ELSE IF data.v.k # "obj" THEN Raise("AttributeError")
       ELSE
         LET items == Iterate(Get(data.v, "issues", PyList(<<>>)))
             issues == IF items.ok THEN IssueList(items.v) ELSE items
         IN IF ~issues.ok THEN issues
            ELSE Ok(ReviewResult(Get(data.v, "overall_score", PyInt(50)),
                                 issues.v,
                                 Get(data.v, "summary", PyStr("")),
                                 Get(data.v, "recommendations", PyList(<<>>))))

TextBlock(toks) == [type |-> "text", text |-> toks]
ToolUseBlock(name, input) == [type |-> "tool_use", name |-> name, input |-> input]

CollectTextBlocks(content) ==
    LET texts == SelectSeq(content, LAMBDA b : b.type = "text")
    IN IF Len(texts) > 0
       THEN JoinLines([i \in 1 .. Len(texts) |-> texts[i].text])
       ELSE IF Len(content) > 0 THEN <<Junk>> ELSE <<>>

\* the payload of the first submit_review block that carries a dict or a str
RECURSIVE ExtractReviewToolPayload(_)
ExtractReviewToolPayload(content) ==
    IF Len(content) = 0 THEN PyNone
    ELSE LET block == Head(content)
         IN IF block.type = "tool_use" /\ block.name = "submit_review"
                /\ block.input.k = "obj"
            THEN block.input
            ELSE IF block.type = "tool_use" /\ block.name = "submit_review"
                    /\ block.input.k = "text"
            THEN LET loaded == JsonLoads(block.input.toks)
                 IN IF loaded.ok THEN loaded.v ELSE PyNone
            ELSE ExtractReviewToolPayload(Tail(content))

ErrorSummary(error) ==
    CASE error = "connection" -> PyStr("Network error")
      [] error = "rate_limit" -> PyStr("Rate limit exceeded. Please wait and try again.")
      [] error = "status" -> PyStr("API error (status)")
      [] OTHER -> PyStr("API Error")

Returned(tier, r) == [status |-> "returned", tier |-> tier, result |-> r]
Raised(tier, e) == [status |-> "raised", tier |-> tier, exc |-> e]

\* _review_diffs without its last except clause (anthropic.APIError)
ReviewDiffsWithoutCatchAll(rep) ==
    IF rep.error = "api" THEN Raised("none", "APIError")
    ELSE IF rep.error # "none"
    THEN Returned("none", ReviewResult(PyInt(0), <<>>, ErrorSummary(rep.error), PyList(<<>>)))
    ELSE
      LET tool_payload == ExtractReviewToolPayload(rep.content)
          tier == IF Truthy(tool_payload) THEN "structured" ELSE "free_text"
          built == IF Truthy(tool_payload)
                   THEN BuildReviewResult(tool_payload)
                   ELSE ParseReviewResponse(CollectTextBlocks(rep.content))
      IN IF built.ok
         THEN Returned(tier, [built.v EXCEPT !.diff_analyzed = "diff_context"])
         ELSE Raised(tier, built.exc)

\* _review_diffs, from the engine's reply (or the error the call raised) on
ReviewDiffs(rep) ==
    IF rep.error # "none"
    THEN Returned("none", ReviewResult(PyInt(0), <<>>, ErrorSummary(rep.error), PyList(<<>>)))
    ELSE
      LET tool_payload == ExtractReviewToolPayload(rep.content)
          tier == IF Truthy(tool_payload) THEN "structured" ELSE "free_text"
          built == IF Truthy(tool_payload)
                   THEN BuildReviewResult(tool_payload)
                   ELSE ParseReviewResponse(CollectTextBlocks(rep.content))
      IN IF built.ok
         THEN Returned(tier, [built.v EXCEPT !.diff_analyzed = "diff_context"])
         ELSE Raised(tier, built.exc)

\* review_staged_changes on an empty change list
NoChanges ==
    Returned("none", ReviewResult(PyInt(100), <<>>, PyStr("No staged changes to review."),
                                  PyList(<<>>)))

\* review_unstaged_changes on an empty change list
NoUnstagedChanges ==
    Returned("none", ReviewResult(PyInt(100), <<>>, PyStr("No unstaged changes to review."),
                                  PyList(<<>>)))

----------------------------------------------------------------------------
(* ast_analyzer.py: the syntax tree *)

(* A tree is the sequence of its nodes in source order, one node a line;    *)
(* node i is [kind, parent], parent 0 being the Module. The children of a  *)
(* node are the statements of its body, in source order.                    *)

DefKinds == {"FunctionDef", "AsyncFunctionDef"}
BodyKinds == DefKinds \cup {"ClassDef", "If"}

Nodes(tree) == 1 .. Len(tree)

\* the elements of a set of integers in ascending order
RECURSIVE Sorted(_)
Sorted(S) ==
    IF S = {} THEN <<>>
    ELSE LET m == CHOOSE x \in S : \A y \in S : x <= y
         IN <<m>> \o Sorted(S \ {m})

\* node.body (0 is the Module)
Body(tree, n) == Sorted({i \in Nodes(tree) : tree[i].parent = n})

\* ast.walk(node): breadth first, each node's children in source order
RECURSIVE WalkFrom(_, _)
WalkFrom(tree, todo) ==
    IF Len(todo) = 0 THEN <<>>
    ELSE <<Head(todo)>> \o WalkFrom(tree, Tail(todo) \o Body(tree, Head(todo)))

Walk(tree, n) == WalkFrom(tree, <<n>>)

RECURSIVE Ancestors(_, _)
Ancestors(tree, i) ==
    IF i = 0 THEN {} ELSE {tree[i].parent} \cup Ancestors(tree, tree[i].parent)

InSeq(x, seq) == \E i \in 1 .. Len(seq) : seq[i] = x

\* a definition anywhere below a class counted as its method
IsMethodBelowClass(tree, node) ==
    \E parent \in Ancestors(tree, node) \ {0} : tree[parent].kind = "ClassDef"

\* _is_method: node is in the body of some ClassDef of the tree
IsMethod(tree, node) ==
    \E parent \in Nodes(tree) :
        /\ InSeq(parent, Walk(tree, 0))
        /\ tree[parent].kind = "ClassDef"
        /\ InSeq(node, Body(tree, parent))

\* what one node met by the complexity loop adds
Weight(nd) ==
    IF nd.kind \in {"If", "While", "For", "ExceptHandler"} THEN 1
    ELSE IF nd.kind = "BoolOp" THEN nd.values - 1
    ELSE 0

RECURSIVE SumWeights(_, _)
SumWeights(tree, ns) ==
    IF Len(ns) = 0 THEN 0
    ELSE Weight(tree[Head(ns)]) + SumWeights(tree, Tail(ns))

\* the complexity loop of _parse_function over ast.walk(node)
Complexity(tree, node) == 1 + SumWeights(tree, Walk(tree, node))

\* node.returns is set; some argument of node.args.args has an annotation
\* (a definition of which the tree says neither has none)
HasReturns(nd) == "returns" \in DOMAIN nd /\ nd.returns
HasAnnotatedArg(nd) == "annotated" \in DOMAIN nd /\ nd.annotated

\* _parse_function
ParseFunction(tree, node) ==
    [lineno |-> node,
     is_async |-> tree[node].kind = "AsyncFunctionDef",
     is_method |-> FALSE,
     complexity |-> Complexity(tree, node),
     returns |-> HasReturns(tree[node]),
     args_annotated |-> HasAnnotatedArg(tree[node])]

\* _parse_class: the definitions directly in the class body are its methods
ParseClass(tree, node) ==
    LET items == SelectSeq(Body(tree, node), LAMBDA i : tree[i].kind \in DefKinds)
    IN [lineno |-> node,
        methods |-> [j \in 1 .. Len(items) |->
                        [ParseFunction(tree, items[j]) EXCEPT !.is_method = TRUE]]]

\* _extract_functions
ExtractFunctions(tree) ==
    LET found == SelectSeq(Walk(tree, 0),
                     LAMBDA i : i # 0 /\ tree[i].kind \in DefKinds /\ ~IsMethod(tree, i))
    IN [j \in 1 .. Len(found) |-> ParseFunction(tree, found[j])]

\* _extract_classes
ExtractClasses(tree) ==
    LET found == SelectSeq(Walk(tree, 0), LAMBDA i : i # 0 /\ tree[i].kind = "ClassDef")
    IN [j \in 1 .. Len(found) |-> ParseClass(tree, found[j])]

\* _extract_imports
ExtractImports(tree) ==
    LET found == SelectSeq(Walk(tree, 0), LAMBDA i : i # 0 /\ tree[i].kind = "Import")
    IN [j \in 1 .. Len(found) |-> [lineno |-> found[j]]]

\* node.targets[0] of an Assign node: a Name where the tree says nothing else
Target(nd) == IF "target" \in DOMAIN nd THEN nd.target ELSE "Name"

\* _extract_global_variables: the Assign nodes ast.walk meets whose first
\* target is a Name
ExtractGlobalVariables(tree) ==
    SelectSeq(Walk(tree, 0),
              LAMBDA i : i # 0 /\ tree[i].kind = "Assign" /\ Target(tree[i]) = "Name")

Float(num, den) == [num |-> num, den |-> den]

RECURSIVE Sum(_)
Sum(xs) == IF Len(xs) = 0 THEN 0 ELSE Head(xs) + Sum(Tail(xs))

\* _calculate_metrics with one try around the three visits
CalculateMetricsTogether(tree, radon, functions, classes) ==
    LET fine == radon.cc.ok /\ radon.mi.ok /\ radon.h.ok
    IN [lines_of_code |-> Len(tree),
        cyclomatic_complexity |->
           IF fine THEN Float(Sum(radon.cc.v), 1) ELSE Float(1, 1),
        maintainability_index |->
           IF fine THEN Float(radon.mi.v, 1) ELSE Float(100, 1),
        halstead_metrics |->
           IF fine THEN [empty |-> FALSE, volume |-> radon.h.v,
                         difficulty |-> radon.h.v, effort |-> radon.h.v]
           ELSE [empty |-> TRUE],
        functions_count |-> Len(functions),
        classes_count |-> Len(classes),
        average_function_complexity |->
           IF fine /\ Len(radon.cc.v) > 0
           THEN Float(Sum(radon.cc.v), Len(radon.cc.v))
           ELSE Float(1, 1)]

\* _calculate_metrics: radon's three visits each succeed or raise
CalculateMetrics(tree, radon, functions, classes) ==
    [lines_of_code |-> Len(tree),
     cyclomatic_complexity |->
        IF radon.cc.ok THEN Float(Sum(radon.cc.v), 1) ELSE Float(1, 1),
     maintainability_index |->
        IF radon.mi.ok THEN Float(radon.mi.v, 1) ELSE Float(100, 1),
     halstead_metrics |->
        IF radon.h.ok THEN [empty |-> FALSE, volume |-> radon.h.v,
                            difficulty |-> radon.h.v, effort |-> radon.h.v]
        ELSE [empty |-> TRUE],
     functions_count |-> Len(functions),
     classes_count |-> Len(classes),
     average_function_complexity |->
        IF radon.cc.ok /\ Len(radon.cc.v) > 0
        THEN Float(Sum(radon.cc.v), Len(radon.cc.v))
        ELSE Float(1, 1)]

NoMetrics == [none |-> TRUE]

FileAnalysis(functions, classes, imports, global_variables, metrics, parse_errors) ==
    [functions |-> functions, classes |-> classes, imports |-> imports,
     global_variables |-> global_variables, metrics |-> metrics,
     parse_errors |-> parse_errors]

\* FileAnalysis.has_type_hints
HasTypeHints(analysis) ==
    \E i \in 1 .. Len(analysis.functions) :
        analysis.functions[i].returns \/ analysis.functions[i].args_annotated

\* analyze_file that returns on a syntax error without recording it
AnalyzeFileSilent(f) ==
    IF f.kind \in {"unreadable", "undecodable"}
    THEN FileAnalysis(<<>>, <<>>, <<>>, <<>>, NoMetrics, <<"Failed to read file">>)
    ELSE IF f.kind = "syntax_error"
    THEN FileAnalysis(<<>>, <<>>, <<>>, <<>>, NoMetrics, <<>>)
    ELSE LET functions == ExtractFunctions(f.tree)
             classes == ExtractClasses(f.tree)
         IN FileAnalysis(functions, classes, ExtractImports(f.tree),
                         ExtractGlobalVariables(f.tree),
                         CalculateMetrics(f.tree, f.radon, functions, classes),
                         <<>>)

\* analyze_file
AnalyzeFile(f) ==
    IF f.kind \in {"unreadable", "undecodable"}
    THEN FileAnalysis(<<>>, <<>>, <<>>, <<>>, NoMetrics, <<"Failed to read file">>)
    ELSE IF f.kind = "syntax_error"
    THEN FileAnalysis(<<>>, <<>>, <<>>, <<>>, NoMetrics, <<"Syntax error">>)
    ELSE LET functions == ExtractFunctions(f.tree)
             classes == ExtractClasses(f.tree)
         IN FileAnalysis(functions, classes, ExtractImports(f.tree),
                         ExtractGlobalVariables(f.tree),
                         CalculateMetrics(f.tree, f.radon, functions, classes),
                         <<>>)

----------------------------------------------------------------------------
(* code_reviewer.py: composing the brief *)

(* A path is here a sequence of characters, "." one of them and every      *)
(* other element a run of characters without a "."; a context or prompt is *)
(* the sequence of the parts that are joined into its text.                *)

\* s.endswith(suffix)
EndsWith(s, suffix) ==
    /\ Len(s) >= Len(suffix)
    /\ SubSeq(s, Len(s) - Len(suffix) + 1, Len(s)) = suffix

\* DiffInfo.is_python_file
IsPythonFile(diff) == EndsWith(diff.file_path, <<".", "py">>)

\* the parts _build_diff_context appends for one diff
DiffSection(diff) ==
    [section |-> "diff", file_path |-> diff.file_path, change_type |-> diff.change_type,
     changes |-> <<diff.additions, diff.deletions>>,
     renamed_from |-> diff.old_path,
     patch |-> diff.diff_content]

\* _build_diff_context
BuildDiffContext(ds) ==
    <<[section |-> "changes_header", total |-> Len(ds)]>>
    \o [i \in 1 .. Len(ds) |-> DiffSection(ds[i])]

FunctionsListed == 5

StructuralPart(path, body, functions, lacks) ==
    [section |-> "structural", file_path |-> path, body |-> body,
     functions |-> functions, lacks_type_hints |-> lacks]

\* one round of the loop of _analyze_python_files: the section of one file,
\* f being what analyze_file finds at the path
StructuralSection(diff, f) ==
    IF f.kind = "crashes"
    THEN StructuralPart(diff.file_path, "analysis_error", <<>>, FALSE)
    ELSE LET analysis == AnalyzeFile(f)
             listed == PySlice(analysis.functions, 0, FunctionsListed)
         IN IF analysis.parse_errors # <<>>
            THEN StructuralPart(diff.file_path, "parse_errors", <<>>, FALSE)
            ELSE StructuralPart(diff.file_path, "analysis",
                                [i \in 1 .. Len(listed) |-> listed[i].lineno],
                                ~HasTypeHints(analysis))

\* _analyze_python_files
AnalyzePythonFiles(ds, files) ==
    [i \in 1 .. Len(ds) |-> StructuralSection(ds[i], files[ds[i].file_path])]

\* _build_review_prompt with the static analysis put before the changes
BuildReviewPromptAnalysisFirst(diff_context, ast_context) ==
    <<[section |-> "template"]>>
    \o (IF ast_context # <<>>
        THEN <<[section |-> "analysis_header"]>> \o ast_context
        ELSE <<>>)
    \o <<[section |-> "review_header"]>>
    \o diff_context
    \o <<[section |-> "task"]>>

\* _build_review_prompt
BuildReviewPrompt(diff_context, ast_context) ==
    <<[section |-> "template"], [section |-> "review_header"]>>
    \o diff_context
    \o (IF ast_context # <<>>
        THEN <<[section |-> "analysis_header"]>> \o ast_context
        ELSE <<>>)
    \o <<[section |-> "task"]>>

----------------------------------------------------------------------------
(* test_generator.py: placing a generated test *)

(* File content is a sequence of tokens: "def" is the keyword with its     *)
(* blank, a test name is one or more name tokens ("test_foo", then "_bar"  *)
(* for test_foo_bar), "nl" is a newline.                                   *)

NoFile == [exists |-> FALSE]
FileOf(content) == [exists |-> TRUE, content |-> content]

\* _get_test_imports
GetTestImports(framework) ==
    IF framework = "pytest"
    THEN <<"import pytest", "nl", "from unittest.mock import Mock, patch">>
    ELSE <<"import unittest", "nl", "from unittest.mock import Mock, patch">>

\* a path that drops the directories of test_file_path
TestPathFlat(test) == "tests/test_a.py"

\* test_path = Path(test.test_file_path)
TestPath(test) == test.test_file_path

\* test_path.exists() and not overwrite
AppendBranch(files, test, overwrite) == files[TestPath(test)].exists /\ ~overwrite

\* f"def {test.test_name}" in existing_content
AlreadyExists(existing_content, test) ==
    Contains(existing_content, <<"def">> \o test.test_name)

\* the append that rewrites the file from the content read before
AppendedFromSnapshot(current, existing_content, test) ==
    existing_content \o <<"nl", "nl">> \o test.test_code \o <<"nl">>

\* open(test_path, "a").write(f"\n\n{test.test_code}\n"): current is what the
\* file holds at the write, existing_content what was read before the check
Appended(current, existing_content, test) ==
    current \o <<"nl", "nl">> \o test.test_code \o <<"nl">>

\* open(test_path, "w").write(f"{imports}\n\n{test.test_code}\n")
Created(test) ==
    GetTestImports(test.framework) \o <<"nl", "nl">> \o test.test_code \o <<"nl">>

\* write_test_to_file as one call: the files after it and what it returns
WriteTestToFile(files, test, overwrite) ==
    LET path == TestPath(test)
    IN IF AppendBranch(files, test, overwrite)
       THEN LET existing_content == files[path].content
            IN IF AlreadyExists(existing_content, test)
               THEN [files |-> files, ret |-> FALSE]
               ELSE [files |-> [files EXCEPT ![path] =
                                   FileOf(Appended(existing_content, existing_content, test))],
                     ret |-> TRUE]
       ELSE [files |-> [files EXCEPT ![path] = FileOf(Created(test))], ret |-> TRUE]

----------------------------------------------------------------------------
(* git_analyzer.py: reading diffs *)

(* Patch text and file content are sequences of characters: "+", "-",      *)
(* "nl" (a newline) and "a" (any other character). A path is a string,     *)
(* NonePath standing for None.                                             *)

NonePath == "<None>"

\* s.splitlines()
RECURSIVE SplitLines(_)
SplitLines(s) ==
    IF Len(s) = 0 THEN <<>>
    ELSE LET i == Find(s, <<"nl">>, 0)
         IN IF i = -1 THEN <<s>>
            ELSE <<SubSeq(s, 1, i)>> \o SplitLines(SubSeq(s, i + 2, Len(s)))

\* "\n".join(lines)
RECURSIVE JoinNl(_)
JoinNl(lines) ==
    IF Len(lines) = 0 THEN <<>>
    ELSE IF Len(lines) = 1 THEN lines[1]
    ELSE lines[1] \o <<"nl">> \o JoinNl(Tail(lines))

\* s.count(pat), for a pattern that cannot overlap itself
Count(s, pat) ==
    Cardinality({i \in 0 .. (Len(s) - Len(pat)) :
                    \A j \in 1 .. Len(pat) : s[i + j] = pat[j]})

Max0(n) == IF n < 0 THEN 0 ELSE n

DiffInfo(file_path, change_type, additions, deletions, diff_content, old_path) ==
    [file_path |-> file_path, change_type |-> change_type, additions |-> additions,
     deletions |-> deletions, diff_content |-> diff_content, old_path |-> old_path]

\* str(path)
StrPath(path) == IF path = NonePath THEN "None" ELSE path

\* the loop of _parse_diff_index without the subtraction of header lines
ParseDiffItemCountingHeaders(diff_item) ==
    LET change_type ==
            IF diff_item.new_file THEN "A"
            ELSE IF diff_item.deleted_file THEN "D"
            ELSE IF diff_item.renamed THEN "R"
            ELSE "M"
        file_path ==
            StrPath(IF diff_item.b_path # NonePath THEN diff_item.b_path
                    ELSE diff_item.a_path)
        old_path == IF diff_item.renamed THEN StrPath(diff_item.a_path) ELSE NonePath
        diff_content ==
            IF diff_item.diff.kind = "text" THEN diff_item.diff.text ELSE <<>>
    IN DiffInfo(file_path, change_type,
                Count(diff_content, <<"nl", "+">>), Count(diff_content, <<"nl", "-">>),
                diff_content, old_path)

\* the loop of _parse_diff_index with the deleted flag tested before the new one
ParseDiffItemDeletedFirst(diff_item) ==
    LET change_type ==
            IF diff_item.deleted_file THEN "D"
            ELSE IF diff_item.new_file THEN "A"
            ELSE IF diff_item.renamed THEN "R"
            ELSE "M"
        file_path ==
            StrPath(IF diff_item.b_path # NonePath THEN diff_item.b_path
                    ELSE diff_item.a_path)
        old_path == IF diff_item.renamed THEN StrPath(diff_item.a_path) ELSE NonePath
        diff_content ==
            IF diff_item.diff.kind = "text" THEN diff_item.diff.text ELSE <<>>
        additions == Count(diff_content, <<"nl", "+">>)
                     - Count(diff_content, <<"nl", "+", "+", "+">>)
        deletions == Count(diff_content, <<"nl", "-">>)
                     - Count(diff_content, <<"nl", "-", "-", "-">>)
    IN DiffInfo(file_path, change_type, Max0(additions), Max0(deletions),
                diff_content, old_path)

\* one round of the loop of _parse_diff_index
ParseDiffItem(diff_item) ==
    LET change_type ==
            IF diff_item.new_file THEN "A"
            ELSE IF diff_item.deleted_file THEN "D"
            ELSE IF diff_item.renamed THEN "R"
            ELSE "M"
        file_path ==
            StrPath(IF diff_item.b_path # NonePath THEN diff_item.b_path
                    ELSE diff_item.a_path)
        old_path == IF diff_item.renamed THEN StrPath(diff_item.a_path) ELSE NonePath
        diff_content ==
            IF diff_item.diff.kind = "text" THEN diff_item.diff.text ELSE <<>>
        additions == Count(diff_content, <<"nl", "+">>)
                     - Count(diff_content, <<"nl", "+", "+", "+">>)
        deletions == Count(diff_content, <<"nl", "-">>)
                     - Count(diff_content, <<"nl", "-", "-", "-">>)
    IN DiffInfo(file_path, change_type, Max0(additions), Max0(deletions),
                diff_content, old_path)

\* _parse_diff_index
ParseDiffIndex(diff_index) ==
    [i \in 1 .. Len(diff_index) |-> ParseDiffItem(diff_index[i])]

\* one round of the loop of _get_initial_commit_diff
InitialDiff(entry) ==
    LET diff_content ==
            IF entry.readable
            THEN LET lines == SplitLines(entry.content)
                 IN JoinNl([i \in 1 .. Len(lines) |-> <<"+">> \o lines[i]])
            ELSE <<>>
    IN DiffInfo(entry.path, "A",
                IF Len(diff_content) > 0 THEN Count(diff_content, <<"nl", "+">>) ELSE 0,
                0, diff_content, NonePath)

\* _get_initial_commit_diff
GetInitialCommitDiff(entries) ==
    [i \in 1 .. Len(entries) |-> InitialDiff(entries[i])]

\* get_staged_diff: the index against HEAD, or every staged file as added
\* when there is no commit yet
GetStagedDiff(r) ==
    IF r.has_head THEN ParseDiffIndex(r.diff_index)
    ELSE GetInitialCommitDiff(r.entries)

----------------------------------------------------------------------------
(* The replies the reasoning engine can give *)

MaxIssues == 2

SeqsUpTo(S, n) == UNION {[1 .. m -> S] : m \in 0 .. n}

IssueDict(severity, file_path, line_number, category, description, suggestion, code_example) ==
    PyDict([severity |-> severity, file_path |-> file_path, line_number |-> line_number,
            category |-> category, description |-> description,
            suggestion |-> suggestion, code_example |-> code_example])

IssueItems ==
    { IssueDict(PyStr("CRITICAL"), PyStr("a.py"), PyInt(3), PyStr("security"),
                PyStr("d"), PyStr("s"), PyStr("e")),
      IssueDict(PyStr("HIGH"), PyStr("a.py"), Absent, PyStr("quality"),
                PyStr("d"), PyStr("s"), Absent),
      IssueDict(Absent, PyStr("a.py"), Absent, Absent, Absent, Absent, Absent),
      PyStr("oops") }

\* issues whose severities differ in case only
MixedCaseIssues ==
    << IssueDict(PyStr("critical"), PyStr("a.py"), PyInt(3), PyStr("security"),
                 PyStr("d"), PyStr("s"), Absent),
       IssueDict(PyStr("CRITICAL"), PyStr("a.py"), PyInt(3), PyStr("security"),
                 PyStr("d"), PyStr("s"), PyStr("e")) >>

Scores == {Absent, PyNone, PyInt(85), PyInt(150), PyInt(-5), PyFloat(725), PyStr("high")}
Summaries == {Absent, PyNone, PyStr("ok")}
IssuesFields ==
    {Absent, PyNone, PyStr(""), PyList(MixedCaseIssues)}
    \cup {PyList(xs) : xs \in SeqsUpTo(IssueItems, MaxIssues)}
RecsFields ==
    {Absent, PyNone, PyStr("none"), PyList(<<>>), PyList(<<PyStr("r")>>),
     PyList(<<PyInt(1)>>)}

Payload(score, summary, issues, recs) ==
    PyDict([overall_score |-> score, summary |-> summary, issues |-> issues,
            recommendations |-> recs])

Payloads ==
    {Payload(sc, su, is, re) :
        sc \in Scores, su \in Summaries, is \in IssuesFields, re \in RecsFields}

EmptyPayload == Payload(Absent, Absent, Absent, Absent)
GoodPayload == Payload(PyInt(85), PyStr("ok"), PyList(<<>>), PyList(<<PyStr("r")>>))

\* JSON documents that are no object
Scalars == {PyNone, PyInt(7), PyStr("hi"), PyList(<<>>), PyList(<<PyInt(1), PyInt(2)>>)}

FewValues == Scalars \cup {EmptyPayload, GoodPayload,
                           Payload(PyInt(150), Absent, PyNone, PyStr("none"))}

\* a reply of more characters than the summary keeps, none of them JSON
LongText == [i \in 1 .. (SummaryLimit + 1) |-> Junk]

Texts ==
    {<<>>, <<Junk>>, <<Junk, Ws, Junk>>, LongText}
    \cup {<<Doc(v)>> : v \in Payloads \cup Scalars}
    \cup {<<Junk, Ws, Fence, Label, Ws, Doc(v), Ws, Fence, Ws>> : v \in FewValues}
    \cup {<<Fence, Ws, Doc(v), Ws, Fence>> : v \in FewValues}
    \cup {<<Fence, Label, Ws, Doc(v)>> : v \in FewValues}
    \cup {<<Fence, Doc(v), Fence, Fence, Label, Junk, Fence>> : v \in FewValues}

Contents ==
    {<<>>}
    \cup {<<TextBlock(t)>> : t \in Texts}
    \cup {<<TextBlock(<<Junk>>), TextBlock(<<Doc(GoodPayload)>>)>>}
    \cup {<<ToolUseBlock("submit_review", p)>> : p \in Payloads}
    \cup {<<TextBlock(t), ToolUseBlock("submit_review", p)>> :
            t \in {<<Junk>>, <<Doc(GoodPayload)>>}, p \in Payloads}
    \cup {<<ToolUseBlock("submit_review", PyText(<<Doc(v)>>))>> : v \in FewValues}
    \cup {<<ToolUseBlock("submit_review", PyText(<<Junk>>)), TextBlock(<<Doc(GoodPayload)>>)>>}
    \cup {<<ToolUseBlock("submit_review", PyNone), ToolUseBlock("submit_review", GoodPayload)>>}
    \cup {<<ToolUseBlock("other_tool", GoodPayload), TextBlock(<<Doc(EmptyPayload)>>)>>}

Errors == {"connection", "rate_limit", "status", "api"}

Replies ==
    {[called |-> TRUE, error |-> "none", content |-> c] : c \in Contents}
    \cup {[called |-> TRUE, error |-> e, content |-> <<>>] : e \in Errors}

NoReply == [called |-> FALSE, error |-> "none", content |-> <<>>]
Idle == [status |-> "idle"]

----------------------------------------------------------------------------
(* The files analyze_file can be given *)

MaxNodes == 3

NodeKinds == BodyKinds \cup {"Assign", "Import"}

\* where the next line of source can go: the body of the last node, or the
\* body of one of its ancestors
AttachPoints(tree) ==
    IF Len(tree) = 0 THEN {0}
    ELSE {q \in {Len(tree)} \cup Ancestors(tree, Len(tree)) :
            q = 0 \/ tree[q].kind \in BodyKinds}

RECURSIVE Trees(_)
Trees(n) ==
    IF n = 0 THEN {<<>>}
    ELSE UNION {{Append(t, [kind |-> kd, parent |-> q]) :
                    kd \in NodeKinds, q \in AttachPoints(t)} : t \in Trees(n - 1)}

\* the nodes that hold statements or expressions below them
HolderKinds == BodyKinds \cup {"While", "For", "AsyncFor", "ExceptHandler"}

\* the trees of n nodes grown from the trees in seeds by nodes of the given
\* shapes, each put where the next line of source can go below a holder
RECURSIVE Grown(_, _, _)
Grown(seeds, shapes, n) ==
    IF n = 0 THEN seeds
    ELSE UNION {{Append(t, sh @@ [parent |-> q]) :
                    sh \in shapes,
                    q \in {x \in {Len(t)} \cup Ancestors(t, Len(t)) :
                            x # 0 /\ t[x].kind \in HolderKinds}} :
                t \in Grown(seeds, shapes, n - 1)}

\* one function, synchronous or not, at module level
OneFunction == {<<[kind |-> kd, parent |-> 0]>> : kd \in DefKinds}

\* the decision points of a function body, and statements that are none
DecisionShapes ==
    {[kind |-> kd] : kd \in {"If", "While", "For", "AsyncFor", "ExceptHandler", "Return"}}
    \cup {[kind |-> "BoolOp", values |-> v] : v \in {2, 3}}

DecisionTrees == UNION {Grown(OneFunction, DecisionShapes, n) : n \in 0 .. (MaxNodes - 1)}

\* assignments to a name, a subscript, an attribute, a tuple of names
AssignShapes ==
    {[kind |-> "Assign", target |-> tg] : tg \in {"Name", "Subscript", "Attribute", "Tuple"}}

\* an assignment at module level, then a function or class to assign in
AssignSeeds ==
    {<<sh @@ [parent |-> 0], [kind |-> kd, parent |-> 0]>> :
        sh \in AssignShapes, kd \in {"FunctionDef", "ClassDef"}}

AssignTrees == UNION {Grown(AssignSeeds, AssignShapes, n) : n \in 0 .. (MaxNodes - 2)}

\* definitions with and without a return annotation and annotated arguments
DefShapes ==
    {[kind |-> "FunctionDef", returns |-> r, annotated |-> a] :
        r \in BOOLEAN, a \in BOOLEAN}

\* a class, alone or after a function at module level
HintSeeds ==
    {<<[kind |-> "ClassDef", parent |-> 0]>>}
    \cup {<<sh @@ [parent |-> 0], [kind |-> "ClassDef", parent |-> 0]>> : sh \in DefShapes}

HintTrees == UNION {Grown(HintSeeds, DefShapes, n) : n \in 0 .. (MaxNodes - 2)}

RadonFine == [cc |-> Ok(<<1, 2>>), mi |-> Ok(70), h |-> Ok(5)]

RadonOutcomes ==
    {[cc |-> Ok(<<1, 2>>), mi |-> Ok(70), h |-> Ok(5)],
     [cc |-> Raise("Exception"), mi |-> Raise("Exception"), h |-> Raise("Exception")]}

\* each of the three visits succeeds or raises; cc_visit may find nothing
RadonCombos ==
    {[cc |-> c, mi |-> m, h |-> hv] :
        c \in {Ok(<<3, 4>>), Ok(<<>>), Raise("Exception")},
        m \in {Ok(60), Raise("Exception")},
        hv \in {Ok(7), Raise("Exception")}}

MetricTrees == {<<>>, <<[kind |-> "FunctionDef", parent |-> 0]>>}

Files ==
    {[kind |-> kd] : kd \in {"unreadable", "undecodable", "syntax_error"}}
    \cup {[kind |-> "valid", tree |-> t, radon |-> r] :
            t \in UNION {Trees(n) : n \in 0 .. MaxNodes}, r \in RadonOutcomes}
    \cup {[kind |-> "valid", tree |-> t, radon |-> RadonFine] :
            t \in DecisionTrees \cup AssignTrees \cup HintTrees}
    \cup {[kind |-> "valid", tree |-> t, radon |-> r] :
            t \in MetricTrees, r \in RadonCombos}

----------------------------------------------------------------------------
(* The tests write_test_to_file can be given and the files it can find *)

MaxCalls == 2

Paths == {"tests/test_a.py", "tests/pkg/test_a.py"}

TestFoo == <<"test_foo">>
TestFooBar == <<"test_foo", "_bar">>
TestNames == {TestFoo, TestFooBar}

\* a test function defined under the test's own name
DefCode(name) == <<"def">> \o name \o <<"(): assert True">>
\* a test class whose method has another name
ClassCode == <<"class TestCase:", "nl", "def", "test_it", "(self): pass">>

GeneratedTest(name, code, path, framework) ==
    [test_name |-> name, test_code |-> code, test_file_path |-> path,
     framework |-> framework]

Tests ==
    {GeneratedTest(nm, DefCode(nm), p, "pytest") : nm \in TestNames, p \in Paths}
    \cup {GeneratedTest(nm, ClassCode, p, "pytest") : nm \in TestNames, p \in Paths}
    \cup {GeneratedTest(TestFoo, DefCode(TestFoo), "tests/test_a.py", "unittest")}

\* what a test file may hold before any call
OldContents ==
    {GetTestImports("pytest") \o <<"nl", "nl">> \o DefCode(<<"test_old">>) \o <<"nl">>,
     GetTestImports("pytest") \o <<"nl", "nl">> \o DefCode(TestFooBar) \o <<"nl">>}

FileSystems == [Paths -> {NoFile} \cup {FileOf(c) : c \in OldContents}]

\* the calls that run concurrently
MaxWriters == 2
Writers == 1 .. MaxWriters

ConcurrentTests ==
    {GeneratedTest(nm, DefCode(nm), p, "pytest") : nm \in TestNames, p \in Paths}

ConcurrentFileSystems ==
    [Paths -> {NoFile,
               FileOf(GetTestImports("pytest") \o <<"nl", "nl">>
                      \o DefCode(<<"test_old">>) \o <<"nl">>)}]

----------------------------------------------------------------------------
(* The repositories get_staged_diff can meet *)

MaxLen == 4

TextsUpTo(alphabet, n) == UNION {[1 .. m -> alphabet] : m \in 0 .. n}

FileTexts == TextsUpTo({"a", "+", "nl"}, MaxLen)

IndexEntry(path, readable, content) ==
    [path |-> path, readable |-> readable, content |-> content]

FirstEntries ==
    {IndexEntry("a.py", TRUE, c) : c \in FileTexts}
    \cup {IndexEntry("a.py", FALSE, <<>>)}

SecondEntries ==
    {IndexEntry("b.txt", TRUE, c) : c \in {<<>>, <<"a", "nl", "a", "nl">>}}
    \cup {IndexEntry("b.txt", FALSE, <<>>)}

StagedEntries ==
    {<<>>} \cup {<<e>> : e \in FirstEntries}
    \cup {<<e, f>> : e \in FirstEntries, f \in SecondEntries}

MaxPatchLines == 3

\* the lines a patch is made of: context, additions, deletions, headers
PatchLines ==
    {<<>>, <<"a">>,
     <<"+">>, <<"+", "a">>, <<"+", "+", "+">>, <<"+", "+", "+", "a">>,
     <<"-">>, <<"-", "a">>, <<"-", "-", "-">>, <<"-", "-", "-", "a">>}

PatchTexts ==
    {JoinNl(ls) : ls \in SeqsUpTo(PatchLines, MaxPatchLines)}

FewPatchTexts ==
    {<<>>,
     <<"a", "nl", "+", "a", "nl", "-", "a">>,
     <<"-", "-", "-", "a", "nl", "+", "+", "+", "a", "nl", "+", "a">>}

DiffBlobs ==
    {[kind |-> "none"], [kind |-> "undecodable"]}
    \cup {[kind |-> "text", text |-> t] : t \in PatchTexts}

FewDiffBlobs ==
    {[kind |-> "none"], [kind |-> "undecodable"]}
    \cup {[kind |-> "text", text |-> t] : t \in FewPatchTexts}

DiffItem(new_file, deleted_file, renamed, a_path, b_path, blob) ==
    [new_file |-> new_file, deleted_file |-> deleted_file, renamed |-> renamed,
     a_path |-> a_path, b_path |-> b_path, diff |-> blob]

\* every combination of flags and paths, and every patch
DiffItems ==
    {DiffItem(n, d, r, a, b, blob) :
        n \in BOOLEAN, d \in BOOLEAN, r \in BOOLEAN,
        a \in {NonePath, "old.py"}, b \in {NonePath, "a.py"}, blob \in FewDiffBlobs}
    \cup {DiffItem(FALSE, FALSE, FALSE, "a.py", "a.py", blob) : blob \in DiffBlobs}

Repositories ==
    {[has_head |-> FALSE, entries |-> es, diff_index |-> <<>>] : es \in StagedEntries}
    \cup {[has_head |-> TRUE, entries |-> <<>>, diff_index |-> di] :
            di \in SeqsUpTo(DiffItems, 1)}

----------------------------------------------------------------------------
(* The change lists a review can be given and the files behind them *)

MaxDiffs == 2

PathA == <<"a", ".", "py">>
PathC == <<"c", ".", "py">>
PathTxt == <<"b", ".", "txt">>
PathPyc == <<"d", ".", "pyc">>
PyPaths == {PathA, PathC}

ReviewedDiffs ==
    {DiffInfo(PathA, "M", 1, 0, <<"nl", "+", "a">>, NonePath),
     DiffInfo(PathA, "R", 0, 0, <<>>, <<"old", ".", "py">>),
     DiffInfo(PathC, "D", 0, 1, <<"nl", "-", "a">>, NonePath),
     DiffInfo(PathTxt, "A", 1, 0, <<"nl", "+", "a">>, NonePath),
     DiffInfo(PathPyc, "M", 0, 0, <<>>, NonePath)}

DiffLists == SeqsUpTo(ReviewedDiffs, MaxDiffs)

\* more functions than a structural section lists
ManyFunctions == [i \in 1 .. (FunctionsListed + 1) |-> [kind |-> "FunctionDef", parent |-> 0]]

\* what analyze_file can find at a.py: nothing readable, bad syntax, source
\* on which the parser gives up, or a module
FilesAtA ==
    {[kind |-> kd] : kd \in {"unreadable", "syntax_error", "crashes"}}
    \cup {[kind |-> "valid", tree |-> t, radon |-> RadonFine] :
            t \in {ManyFunctions} \cup {h \in HintTrees : Len(h) <= 2}}

\* c.py is deleted, or there with bad syntax
FilesAtC == {[kind |-> "unreadable"], [kind |-> "syntax_error"]}

WorkingTrees == {(PathA :> fa) @@ (PathC :> fc) : fa \in FilesAtA, fc \in FilesAtC}

EngineReplies ==
    {[called |-> TRUE, error |-> "none",
      content |-> <<ToolUseBlock("submit_review", GoodPayload)>>],
     [called |-> TRUE, error |-> "none", content |-> <<TextBlock(<<Junk>>)>>],
     [called |-> TRUE, error |-> "rate_limit", content |-> <<>>]}

----------------------------------------------------------------------------
(* The other components at rest *)

ReviewIdle == reply = NoReply /\ outcome = Idle
AnalyzerIdle == file = [kind |-> "none"] /\ report = [status |-> "idle"]
WriterIdle == fs = <<>> /\ call = <<>> /\ w = <<>>
GitAtRest == repo = [kind |-> "none"] /\ diffs = [status |-> "idle"]
BriefIdle == brief = [pc |-> "idle"]
ScanIdle == scan = [status |-> "idle"]
TargetIdle == target = [status |-> "idle"]
GitIdle == GitAtRest /\ BriefIdle /\ ScanIdle /\ TargetIdle

----------------------------------------------------------------------------
(* The review operations *)

\* review_staged_changes: an empty change list is answered without the
\* engine, any other goes through _review_diffs
ReviewStagedChanges ==
    /\ outcome = Idle
    /\ \/ reply' = NoReply /\ outcome' = NoChanges
       \/ \E rep \in Replies : reply' = rep /\ outcome' = ReviewDiffs(rep)
    /\ UNCHANGED <<file, report, fs, call, w, repo, diffs, brief, scan, target>>

\* review_unstaged_changes: as review_staged_changes, on the working tree
ReviewUnstagedChanges ==
    /\ outcome = Idle
    /\ \/ reply' = NoReply /\ outcome' = NoUnstagedChanges
       \/ \E rep \in Replies : reply' = rep /\ outcome' = ReviewDiffs(rep)
    /\ UNCHANGED <<file, report, fs, call, w, repo, diffs, brief, scan, target>>

\* review_commit: always through _review_diffs
ReviewCommit ==
    /\ outcome = Idle
    /\ \E rep \in Replies : reply' = rep /\ outcome' = ReviewDiffs(rep)
    /\ UNCHANGED <<file, report, fs, call, w, repo, diffs, brief, scan, target>>

InitReview == ReviewIdle /\ AnalyzerIdle /\ WriterIdle /\ GitIdle
NextReview == ReviewStagedChanges \/ ReviewUnstagedChanges \/ ReviewCommit
SpecReview == InitReview /\ [][NextReview]_vars

----------------------------------------------------------------------------
(* Claims about the response validation, checked under SpecReview *)

\* a ReviewResult whose score, summary, issues and recommendations are present
WellFormed(r) ==
    /\ r.overall_score.k = "int"
    /\ IsStr(r.summary)
    /\ r.recommendations.k = "list"
    /\ \A i \in 1 .. Len(r.recommendations.items) : IsStr(r.recommendations.items[i])
    /\ \A i \in 1 .. Len(r.issues) : IsStr(r.issues[i].severity)

EngineReplied == outcome # Idle /\ reply.called /\ reply.error = "none"

\* C1: whatever reply the engine gives (empty text, malformed JSON, JSON of
\* any shape, issue items that are no objects), the review returns a
\* well-formed ReviewResult and raises nothing to its caller.
C1_NeverRaises ==
    EngineReplied => outcome.status = "returned" /\ WellFormed(outcome.result)

\* the reply holds a submit_review invocation that carries a payload: an
\* object, or a string that decodes
HasReviewInvocation(content) ==
    \E i \in 1 .. Len(content) :
        /\ content[i].type = "tool_use"
        /\ content[i].name = "submit_review"
        /\ \/ content[i].input.k = "obj"
           \/ content[i].input.k = "text" /\ JsonLoads(content[i].input.toks).ok

\* C2: whenever the reply holds a submit_review invocation, the result is
\* built from its payload (the empty object included) and the free-text tier
\* is not consulted; the free-text tier runs only without such an invocation.
C2_StructuredTierWins ==
    EngineReplied =>
        (HasReviewInvocation(reply.content) <=> outcome.tier = "structured")

\* C3: every ReviewResult a review returns, on any path, has an integer
\* overall_score between 0 and 100.
C3_ScoreInRange ==
    outcome.status = "returned" =>
        /\ outcome.result.overall_score.k = "int"
        /\ outcome.result.overall_score.n >= 0
        /\ outcome.result.overall_score.n <= 100

----------------------------------------------------------------------------
(* The file analysis *)

Analyze ==
    /\ report = [status |-> "idle"]
    /\ \E f \in Files :
        /\ file' = f
        /\ report' = [status |-> "returned", analysis |-> AnalyzeFile(f)]
    /\ UNCHANGED <<reply, outcome, fs, call, w, repo, diffs, brief, scan, target>>

InitAnalyze == ReviewIdle /\ AnalyzerIdle /\ WriterIdle /\ GitIdle
NextAnalyze == Analyze
SpecAnalyze == InitAnalyze /\ [][NextAnalyze]_vars

----------------------------------------------------------------------------
(* Claims about the file analysis, checked under SpecAnalyze *)

Analysed == report.status = "returned"

\* C4: after analyze_file on any file, a non-empty parse_errors comes with
\* empty functions, classes, imports and global_variables and no metrics;
\* and a file whose syntax parse fails has a non-empty parse_errors.
C4_AllOrNothing ==
    Analysed =>
        /\ report.analysis.parse_errors # <<>> =>
              /\ report.analysis.functions = <<>>
              /\ report.analysis.classes = <<>>
              /\ report.analysis.imports = <<>>
              /\ report.analysis.global_variables = <<>>
              /\ report.analysis.metrics = NoMetrics
        /\ file.kind = "syntax_error" => report.analysis.parse_errors # <<>>

C4_Witness ==
    /\ Analysed
    /\ file.kind = "syntax_error"
    /\ report.analysis.parse_errors # <<>>
    /\ report.analysis.metrics = NoMetrics

\* how many records of seq stand for the definition at line c
Occurrences(seq, c) == Cardinality({i \in 1 .. Len(seq) : seq[i].lineno = c})

RECURSIVE SumOver(_, _)
SumOver(seq, c) ==
    IF Len(seq) = 0 THEN 0
    ELSE Occurrences(Head(seq).methods, c) + SumOver(Tail(seq), c)

Callables(tree) == {i \in Nodes(tree) : tree[i].kind \in DefKinds}

\* C5: in a successfully parsed file every callable definition, at any
\* depth, appears exactly once, in functions or in the methods of one class;
\* it is in a class's methods iff it is directly in that class's body; and
\* functions and methods hold nothing but callable definitions.
C5_StructuralPartition ==
    (Analysed /\ file.kind = "valid") =>
        LET a == report.analysis
            t == file.tree
        IN /\ \A c \in Callables(t) :
                Occurrences(a.functions, c) + SumOver(a.classes, c) = 1
           /\ \A c \in Callables(t) : \A j \in 1 .. Len(a.classes) :
                Occurrences(a.classes[j].methods, c) = 1
                    <=> t[c].parent = a.classes[j].lineno
           /\ \A j \in 1 .. Len(a.functions) : a.functions[j].lineno \in Callables(t)
           /\ \A j \in 1 .. Len(a.classes) : \A m \in 1 .. Len(a.classes[j].methods) :
                a.classes[j].methods[m].lineno \in Callables(t)

\* a method, and a definition nested in that method, in one file
C5_Witness ==
    /\ Analysed
    /\ file.kind = "valid"
    /\ \E j \in 1 .. Len(report.analysis.classes) :
            Len(report.analysis.classes[j].methods) > 0
    /\ \E j \in 1 .. Len(report.analysis.functions) :
        LET c == report.analysis.functions[j].lineno
        IN file.tree[c].parent # 0 /\ file.tree[file.tree[c].parent].kind \in DefKinds

----------------------------------------------------------------------------
(* Placing tests, one call after another *)

\* one write_test_to_file call, recorded with the file before and after it
WriteTest ==
    /\ Len(call) < MaxCalls
    /\ \E test \in Tests, overwrite \in BOOLEAN :
        LET done == WriteTestToFile(fs, test, overwrite)
        IN /\ fs' = done.files
           /\ call' = Append(call, [test |-> test, overwrite |-> overwrite,
                                    before |-> fs[TestPath(test)],
                                    after |-> done.files[TestPath(test)],
                                    ret |-> done.ret])
    /\ UNCHANGED <<reply, outcome, file, report, w, repo, diffs, brief, scan, target>>

InitWrite ==
    /\ ReviewIdle /\ AnalyzerIdle /\ GitIdle
    /\ fs \in FileSystems /\ call = <<>> /\ w = <<>>
NextWrite == WriteTest
SpecWrite == InitWrite /\ [][NextWrite]_vars

\* C6: a test written to a fresh path gives a file holding exactly the
\* framework imports followed by the test body, and success; the same test
\* written again to the same path without overwrite gives already-exists and
\* leaves the file as it was, whatever the test's code body holds.
C6_IdempotentPlacement ==
    /\ \A i \in 1 .. Len(call) :
          ~call[i].before.exists =>
              /\ call[i].ret = TRUE
              /\ call[i].after = FileOf(GetTestImports(call[i].test.framework)
                                        \o <<"nl", "nl">> \o call[i].test.test_code
                                        \o <<"nl">>)
    /\ \A i \in 1 .. Len(call) - 1 :
          (/\ ~call[i].before.exists
           /\ call[i + 1].test = call[i].test
           /\ ~call[i + 1].overwrite)
          => (call[i + 1].ret = FALSE /\ call[i + 1].after = call[i + 1].before)

\* the identifier characters a name can go on with
NameTokens == {"test_foo", "_bar", "test_old", "test_it"}

\* content holds a definition of exactly this name
HasDefinition(content, name) ==
    \E i \in 0 .. (Len(content) - Len(name) - 1) :
        /\ content[i + 1] = "def"
        /\ \A j \in 1 .. Len(name) : content[i + 1 + j] = name[j]
        /\ (i + 1 + Len(name) < Len(content)
                => content[i + 2 + Len(name)] \notin NameTokens)

\* C7: when the target file exists and overwrite is not forced, the test
\* body is appended exactly when the file holds no definition of the same
\* test name, and otherwise the call returns already-exists and leaves the
\* file alone; a definition of a longer name that begins with the test name
\* does not block the append.
C7_AppendUnlessSameName ==
    \A i \in 1 .. Len(call) :
        (call[i].before.exists /\ ~call[i].overwrite) =>
            IF HasDefinition(call[i].before.content, call[i].test.test_name)
            THEN call[i].ret = FALSE /\ call[i].after = call[i].before
            ELSE /\ call[i].ret = TRUE
                 /\ call[i].after = FileOf(call[i].before.content \o <<"nl", "nl">>
                                           \o call[i].test.test_code \o <<"nl">>)

----------------------------------------------------------------------------
(* Placing tests concurrently: write_test_to_file step by step *)

(* w.start is the file system before any call; w.calls[i] is call i: its   *)
(* arguments, its position pc, the content it read, the branch it took and *)
(* what it returned; w.interleaved records that a call began while another *)
(* was between its check and its write.                                    *)

WriterAt(i, pc) == w.calls[i].pc = pc

InFlight(i) == w.calls[i].pc \in {"read", "append", "create"}

\* the existence test of line 351
CheckExists(i) ==
    /\ WriterAt(i, "start")
    /\ LET c == w.calls[i]
           branch == IF AppendBranch(fs, c.test, c.overwrite) THEN "append" ELSE "create"
       IN w' = [w EXCEPT !.calls[i].pc = IF branch = "append" THEN "read" ELSE "create",
                         !.calls[i].branch = branch,
                         !.interleaved = @ \/ \E j \in Writers : j # i /\ InFlight(j)]
    /\ UNCHANGED <<fs, reply, outcome, file, report, call, repo, diffs, brief, scan, target>>

\* the read and the duplicate test of lines 353-358
ReadExisting(i) ==
    /\ WriterAt(i, "read")
    /\ LET c == w.calls[i]
           existing_content == fs[TestPath(c.test)].content
       IN IF AlreadyExists(existing_content, c.test)
          THEN w' = [w EXCEPT !.calls[i].pc = "done",
                              !.calls[i].existing_content = existing_content,
                              !.calls[i].ret = FALSE]
          ELSE w' = [w EXCEPT !.calls[i].pc = "append",
                              !.calls[i].existing_content = existing_content]
    /\ UNCHANGED <<fs, reply, outcome, file, report, call, repo, diffs, brief, scan, target>>

\* the append of lines 361-362
AppendTest(i) ==
    /\ WriterAt(i, "append")
    /\ LET c == w.calls[i]
           path == TestPath(c.test)
       IN /\ fs' = [fs EXCEPT ![path] =
                        FileOf(Appended(fs[path].content, c.existing_content, c.test))]
          /\ w' = [w EXCEPT !.calls[i].pc = "done", !.calls[i].ret = TRUE]
    /\ UNCHANGED <<reply, outcome, file, report, call, repo, diffs, brief, scan, target>>

\* the creation of lines 365-368
CreateTest(i) ==
    /\ WriterAt(i, "create")
    /\ LET c == w.calls[i]
       IN /\ fs' = [fs EXCEPT ![TestPath(c.test)] = FileOf(Created(c.test))]
          /\ w' = [w EXCEPT !.calls[i].pc = "done", !.calls[i].ret = TRUE]
    /\ UNCHANGED <<reply, outcome, file, report, call, repo, diffs, brief, scan, target>>

NewCall(test, overwrite) ==
    [test |-> test, overwrite |-> overwrite, pc |-> "start", branch |-> "none",
     existing_content |-> <<>>, ret |-> FALSE]

InitConcurrent ==
    /\ ReviewIdle /\ AnalyzerIdle /\ GitIdle
    /\ fs \in ConcurrentFileSystems
    /\ call = <<>>
    /\ \E tests \in [Writers -> ConcurrentTests], overwrites \in [Writers -> BOOLEAN] :
        w = [start |-> fs, interleaved |-> FALSE,
             calls |-> [i \in Writers |-> NewCall(tests[i], overwrites[i])]]

NextConcurrent ==
    \E i \in Writers : CheckExists(i) \/ ReadExisting(i) \/ AppendTest(i) \/ CreateTest(i)

SpecConcurrent == InitConcurrent /\ [][NextConcurrent]_vars

AllDone == \A i \in Writers : WriterAt(i, "done")

\* how often pat occurs in content
CountOf(content, pat) ==
    Cardinality({i \in 0 .. (Len(content) - Len(pat)) :
                    \A j \in 1 .. Len(pat) : content[i + j] = pat[j]})

\* the calls run one after another in the given order, from w.start
RECURSIVE RunInOrder(_, _, _, _)
RunInOrder(files, rets, order, k) ==
    IF k > MaxWriters THEN [files |-> files, rets |-> rets]
    ELSE LET c == w.calls[order[k]]
             done == WriteTestToFile(files, c.test, c.overwrite)
         IN RunInOrder(done.files, [rets EXCEPT ![order[k]] = done.ret], order, k + 1)

Sequentially(order) == RunInOrder(w.start, [i \in Writers |-> FALSE], order, 1)

\* calls i and j wrote the same test by appending, and no finished call
\* created the file anew
BothAppended(i, j) ==
    /\ i # j
    /\ WriterAt(i, "done") /\ WriterAt(j, "done")
    /\ w.calls[i].test = w.calls[j].test
    /\ w.calls[i].branch = "append" /\ w.calls[j].branch = "append"
    /\ w.calls[i].ret /\ w.calls[j].ret
    /\ \A n \in Writers :
          (w.calls[n].test.test_file_path = w.calls[i].test.test_file_path
           /\ WriterAt(n, "done")) => w.calls[n].branch = "append"

\* C8: concurrent calls for one target path are not safe: when two writers
\* of the same test both pass the duplicate check before either appends,
\* both append and both return success, so the file holds the definition
\* twice, although run one after the other the second call returns
\* already-exists and the file holds the definition once.
C8_SamePathRace ==
    \A i, j \in Writers :
        BothAppended(i, j) =>
            LET t == w.calls[i].test
                def == <<"def">> \o t.test_name
                first == WriteTestToFile(w.start, t, FALSE)
                second == WriteTestToFile(first.files, t, FALSE)
            IN /\ CountOf(fs[TestPath(t)].content, def) >= 2
               /\ first.ret = TRUE /\ second.ret = FALSE
               /\ CountOf(second.files[TestPath(t)].content, def) = 1

C8_Witness ==
    /\ AllDone
    /\ \E i, j \in Writers :
        /\ BothAppended(i, j)
        /\ CountOf(fs[TestPath(w.calls[i].test)].content,
                   <<"def">> \o w.calls[i].test.test_name) = 2

PairwiseDisjoint ==
    \A i, j \in Writers :
        i # j => w.calls[i].test.test_file_path # w.calls[j].test.test_file_path

\* C9: concurrent calls whose target paths are pairwise disjoint are safe:
\* however their steps interleave, every file ends as, and every call
\* returns what, the calls run one after another in any order give.
C9_DisjointPathsSafe ==
    (AllDone /\ PairwiseDisjoint) =>
        \A order \in Permutations(Writers) :
            /\ fs = Sequentially(order).files
            /\ \A i \in Writers : w.calls[i].ret = Sequentially(order).rets[i]

C9_Witness ==
    /\ AllDone /\ PairwiseDisjoint /\ w.interleaved
    /\ \E i \in Writers : w.calls[i].branch = "append" /\ w.calls[i].ret
    /\ \E i \in Writers : w.calls[i].branch = "create"

----------------------------------------------------------------------------
(* Reading the staged changes *)

StagedDiff ==
    /\ diffs = [status |-> "idle"]
    /\ \E r \in Repositories :
        /\ repo' = r
        /\ diffs' = [status |-> "returned", list |-> GetStagedDiff(r)]
    /\ UNCHANGED <<reply, outcome, file, report, fs, call, w, brief, scan, target>>

InitGit == ReviewIdle /\ AnalyzerIdle /\ WriterIdle /\ GitIdle
NextGit == StagedDiff
SpecGit == InitGit /\ [][NextGit]_vars

\* C10: in the empty-repository fallback of get_staged_diff every staged
\* path gives exactly one record of kind added, whose patch is the file's
\* content with each line prefixed by "+", whose additions are the number of
\* lines of that content and whose deletions are 0.
C10_InitialCommitCounts ==
    (diffs.status = "returned" /\ ~repo.has_head) =>
        /\ Len(diffs.list) = Len(repo.entries)
        /\ \A i \in 1 .. Len(repo.entries) :
            LET entry == repo.entries[i]
                d == diffs.list[i]
                lines == SplitLines(entry.content)
            IN /\ d.file_path = entry.path
               /\ d.change_type = "A"
               /\ d.deletions = 0
               /\ entry.readable =>
                    /\ d.diff_content = JoinNl([n \in 1 .. Len(lines) |-> <<"+">> \o lines[n]])
                    /\ d.additions = Len(lines)

----------------------------------------------------------------------------
(* Claims about the change records, checked under SpecGit *)

\* the index was compared with HEAD and item i of the comparison was parsed
Parsed(i) ==
    /\ diffs.status = "returned" /\ repo.has_head
    /\ i \in 1 .. Len(repo.diff_index)

\* a line that begins with +++ or with ---
IsHeaderLine(line) ==
    /\ Len(line) >= 3
    /\ \/ \A n \in 1 .. 3 : line[n] = "+"
       \/ \A n \in 1 .. 3 : line[n] = "-"

\* a patch that has lines, all of them header lines
HeadersOnly(text) ==
    LET lines == SplitLines(text)
    IN Len(lines) > 0 /\ \A n \in 1 .. Len(lines) : IsHeaderLine(lines[n])

\* C11: for every patch (empty, undecodable and header-only ones included)
\* the additions and deletions of the record are >= 0, and a patch whose
\* only lines are +++ / --- header lines gives 0 additions and 0 deletions.
C11_CountsNeverNegative ==
    diffs.status = "returned" =>
        /\ \A i \in 1 .. Len(diffs.list) :
              diffs.list[i].additions >= 0 /\ diffs.list[i].deletions >= 0
        /\ \A i \in 1 .. Len(repo.diff_index) :
              (Parsed(i) /\ repo.diff_index[i].diff.kind = "text"
               /\ HeadersOnly(repo.diff_index[i].diff.text)) =>
                  diffs.list[i].additions = 0 /\ diffs.list[i].deletions = 0

C11_Witness ==
    /\ Parsed(1)
    /\ repo.diff_index[1].diff.kind = "text"
    /\ HeadersOnly(repo.diff_index[1].diff.text)
    /\ Count(repo.diff_index[1].diff.text, <<"nl", "+", "+", "+">>) > 0
    /\ Count(repo.diff_index[1].diff.text, <<"nl", "-", "-", "-">>) > 0
    /\ diffs.list[1].additions = 0 /\ diffs.list[1].deletions = 0

\* C12: whatever the flags new, deleted and renamed of the item, the record
\* carries an old_path if and only if its change kind is renamed; records of
\* kind added, deleted or modified never carry one.
C12_OldPathOnlyForRenames ==
    diffs.status = "returned" =>
        \A i \in 1 .. Len(diffs.list) :
            (diffs.list[i].old_path # NonePath) <=> (diffs.list[i].change_type = "R")

\* the lines of the patch that begin with the marker and are no header lines
MarkedLines(text, marker) ==
    LET lines == SplitLines(text)
    IN {n \in 1 .. Len(lines) :
            /\ Len(lines[n]) > 0
            /\ lines[n][1] = marker
            /\ ~IsHeaderLine(lines[n])}

\* C19: for every decodable patch, additions is the number of patch lines
\* that begin with "+" and are no +++ header lines, and deletions the number
\* that begin with "-" and are no --- header lines, the first line of the
\* patch counted like every other.
C19_CountsEveryMarkedLine ==
    diffs.status = "returned" =>
        \A i \in 1 .. Len(repo.diff_index) :
            (Parsed(i) /\ repo.diff_index[i].diff.kind = "text") =>
                /\ diffs.list[i].additions
                     = Cardinality(MarkedLines(repo.diff_index[i].diff.text, "+"))
                /\ diffs.list[i].deletions
                     = Cardinality(MarkedLines(repo.diff_index[i].diff.text, "-"))

\* C20: the change kind follows the precedence new_file (added), then
\* deleted_file (deleted), then renamed (renamed), else modified, for all
\* eight combinations of the flags; and the record's path is the destination
\* path b_path when the item has one, else the source path a_path.
C20_KindPrecedence ==
    diffs.status = "returned" =>
        \A i \in 1 .. Len(repo.diff_index) :
            Parsed(i) =>
                LET item == repo.diff_index[i]
                    d == diffs.list[i]
                IN /\ item.new_file => d.change_type = "A"
                   /\ (~item.new_file /\ item.deleted_file) => d.change_type = "D"
                   /\ (~item.new_file /\ ~item.deleted_file /\ item.renamed)
                        => d.change_type = "R"
                   /\ (~item.new_file /\ ~item.deleted_file /\ ~item.renamed)
                        => d.change_type = "M"
                   /\ item.b_path # NonePath => d.file_path = item.b_path
                   /\ (item.b_path = NonePath /\ item.a_path # NonePath)
                        => d.file_path = item.a_path

C20_Witness ==
    /\ Parsed(1)
    /\ repo.diff_index[1].new_file /\ repo.diff_index[1].deleted_file
    /\ repo.diff_index[1].renamed
    /\ repo.diff_index[1].b_path = NonePath /\ repo.diff_index[1].a_path = "old.py"
    /\ diffs.list[1].change_type = "A"
    /\ diffs.list[1].file_path = "old.py"

----------------------------------------------------------------------------
(* Further claims about the review results, checked under SpecReview *)

\* the issues of r whose severity is exactly the string s
WithSeverity(r, s) ==
    {i \in 1 .. Len(r.issues) :
        r.issues[i].severity.k = "str" /\ r.issues[i].severity.s = s}

\* C13: for every ReviewResult, whichever tier or failure path gave it,
\* critical_issues_count is the number of issues whose severity is exactly
\* CRITICAL, high_issues_count the number whose severity is exactly HIGH,
\* total_issues_count the length of issues, and critical + high <= total.
C13_CountsFollowIssues ==
    outcome.status = "returned" =>
        LET r == outcome.result
        IN /\ CriticalIssuesCount(r) = Cardinality(WithSeverity(r, "CRITICAL"))
           /\ HighIssuesCount(r) = Cardinality(WithSeverity(r, "HIGH"))
           /\ TotalIssuesCount(r) = Len(r.issues)
           /\ CriticalIssuesCount(r) + HighIssuesCount(r) <= TotalIssuesCount(r)

C13_Witness ==
    /\ outcome.status = "returned"
    /\ outcome.tier = "free_text"
    /\ Len(outcome.result.issues) = 2
    /\ outcome.result.issues[1].severity = PyStr("critical")
    /\ outcome.result.issues[2].severity = PyStr("CRITICAL")
    /\ CriticalIssuesCount(outcome.result) = 1
    /\ HighIssuesCount(outcome.result) = 0

\* the text the free-text tier is given
ReplyText == CollectTextBlocks(reply.content)

\* the first n characters of s
FirstChars(s, n) == IF Len(s) <= n THEN s ELSE SubSeq(s, 1, n)

\* C14: when the free-text payload cannot be decoded as structured data the
\* result is exactly score 50, the first 500 characters of the raw reply as
\* summary, no issues and one recommendation saying that the structured
\* parse failed; the reply "not json" gives the summary "not json".
C14_DecodeFailureFallback ==
    (EngineReplied /\ outcome.tier = "free_text"
     /\ ~JsonLoads(JsonText(ReplyText)).ok) =>
        /\ outcome.status = "returned"
        /\ outcome.result.overall_score = PyInt(50)
        /\ outcome.result.summary = PyText(FirstChars(ReplyText, 500))
        /\ outcome.result.issues = <<>>
        /\ outcome.result.recommendations =
             PyList(<<PyStr("Unable to parse structured review. See summary for details.")>>)

C14_Witness ==
    /\ EngineReplied /\ outcome.tier = "free_text"
    /\ ~JsonLoads(JsonText(ReplyText)).ok
    /\ Len(ReplyText) > 500
    /\ outcome.status = "returned"
    /\ Len(outcome.result.summary.toks) = 500

\* the engine call of the review raised one of the anthropic errors
EngineFailed == outcome # Idle /\ reply.called /\ reply.error # "none"

\* the words by which a summary names the category of a failure
FailureSummary(error) ==
    CASE error = "connection" -> "Network error"
      [] error = "rate_limit" -> "Rate limit exceeded. Please wait and try again."
      [] error = "status" -> "API error (status)"
      [] error = "api" -> "API Error"

\* C15: a connection error, rate limit, status error or other API error of
\* the engine call becomes a returned ReviewResult with score 0, no issues
\* and a summary naming the category of the failure; none of them reaches
\* the caller of review_staged_changes, review_unstaged_changes or
\* review_commit.
C15_EngineFailuresReturned ==
    EngineFailed =>
        /\ outcome.status = "returned"
        /\ outcome.result.overall_score = PyInt(0)
        /\ outcome.result.issues = <<>>
        /\ outcome.result.summary = PyStr(FailureSummary(reply.error))

C15_Witness ==
    /\ EngineFailed
    /\ reply.error = "api"
    /\ outcome.status = "returned"
    /\ outcome.result.overall_score = PyInt(0)

\* the payload the structured tier builds its result from
ToolPayload == ExtractReviewToolPayload(reply.content)

StructuredTier == EngineReplied /\ outcome.tier = "structured"

RequiredIssueFields == {"severity", "file_path", "category", "description", "suggestion"}

\* an issue item that is an object holding every required field
CompleteIssue(item) ==
    /\ item.k = "obj"
    /\ \A key \in RequiredIssueFields : Get(item, key, Absent) # Absent

\* C16: in the structured tier an issue item that lacks a required field
\* (severity, file_path, category, description or suggestion) is left out of
\* the result's issues, every other item is kept in order, and the parse
\* completes with a ReviewResult.
C16_IncompleteIssuesSkipped ==
    (StructuredTier /\ ToolPayload.k = "obj"
     /\ Get(ToolPayload, "issues", PyNone).k = "list"
     /\ PyIntOf(Get(ToolPayload, "overall_score", PyInt(50))).ok) =>
        LET kept == SelectSeq(Get(ToolPayload, "issues", PyNone).items, CompleteIssue)
        IN /\ outcome.status = "returned"
           /\ outcome.result.issues = [i \in 1 .. Len(kept) |-> ReviewIssue(kept[i])]

\* what the free-text tier decoded, or the decode failure
FreeTextPayload == JsonLoads(JsonText(ReplyText))

\* C17: for every JSON object P, decoding P through the free-text tier gives
\* the ReviewResult that building P through the structured tier gives: the
\* same defaults, the same coercion of the score to an integer, the same
\* handling of issues and recommendations that are no lists, the same
\* rendering of recommendation items as strings.
C17_TiersAgree ==
    (EngineReplied /\ outcome.tier = "free_text"
     /\ FreeTextPayload.ok /\ FreeTextPayload.v.k = "obj") =>
        LET built == BuildReviewResult(FreeTextPayload.v)
        IN built.ok =>
            /\ outcome.status = "returned"
            /\ outcome.result = [built.v EXCEPT !.diff_analyzed = "diff_context"]

\* the payload does not hold the key
Missing(d, key) == Get(d, key, Absent) = Absent

\* the payload holds no list under the key
NoList(d, key) == Get(d, key, PyNone).k # "list"

\* C18: in the structured tier a payload without overall_score gives score
\* 50, without summary the empty string, without issues or recommendations
\* (or with ones that are no lists) empty lists; an issue item without
\* severity gets MEDIUM, without category quality, without file_path,
\* description or suggestion the empty string, and without line_number or
\* code_example these stay absent.
C18_StructuredDefaults ==
    (StructuredTier /\ ToolPayload.k = "obj" /\ outcome.status = "returned") =>
        LET p == ToolPayload
            r == outcome.result
        IN /\ Missing(p, "overall_score") => r.overall_score = PyInt(50)
           /\ Missing(p, "summary") => r.summary = PyStr("")
           /\ NoList(p, "issues") => r.issues = <<>>
           /\ NoList(p, "recommendations") => r.recommendations = PyList(<<>>)
           /\ ~NoList(p, "issues") =>
                /\ Len(r.issues) = Len(p.f.issues.items)
                /\ \A i \in 1 .. Len(r.issues) :
                     LET item == p.f.issues.items[i]
                     IN /\ Missing(item, "severity") => r.issues[i].severity = PyStr("MEDIUM")
                        /\ Missing(item, "category") => r.issues[i].category = PyStr("quality")
                        /\ \A key \in {"file_path", "description", "suggestion"} :
                             Missing(item, key) => r.issues[i][key] = PyStr("")
                        /\ \A key \in {"line_number", "code_example"} :
                             Missing(item, key) => r.issues[i][key] = PyNone

C18_Witness ==
    /\ StructuredTier /\ ToolPayload.k = "obj" /\ outcome.status = "returned"
    /\ Missing(ToolPayload, "overall_score") /\ Missing(ToolPayload, "summary")
    /\ NoList(ToolPayload, "recommendations")
    /\ ~NoList(ToolPayload, "issues")
    /\ \E i \in 1 .. Len(ToolPayload.f.issues.items) :
         /\ Missing(ToolPayload.f.issues.items[i], "severity")
         /\ Missing(ToolPayload.f.issues.items[i], "suggestion")
         /\ Missing(ToolPayload.f.issues.items[i], "line_number")
         /\ outcome.result.issues[i].severity = PyStr("MEDIUM")
    /\ outcome.result.overall_score = PyInt(50)

----------------------------------------------------------------------------
(* Further claims about the file analysis, checked under SpecAnalyze *)

\* the nodes of the subtree of n, n included
Subtree(tree, n) == {i \in Nodes(tree) : i = n \/ n \in Ancestors(tree, i)}

\* the records of the report for callables: the functions and all methods
RECURSIVE AllMethods(_)
AllMethods(classes) ==
    IF Len(classes) = 0 THEN <<>>
    ELSE Head(classes).methods \o AllMethods(Tail(classes))

CallableRecords(a) == a.functions \o AllMethods(a.classes)

\* the sum over the BoolOp nodes in S of (operand count - 1)
RECURSIVE ShortCircuits(_, _)
ShortCircuits(tree, S) ==
    IF S = {} THEN 0
    ELSE LET i == CHOOSE x \in S : TRUE
         IN (IF tree[i].kind = "BoolOp" THEN tree[i].values - 1 ELSE 0)
            + ShortCircuits(tree, S \ {i})

\* C21: the complexity of every callable is 1 + the number of conditional,
\* loop (asynchronous for-loops included) and exception-handler nodes in its
\* subtree + the sum over its boolean expressions of (operand count - 1);
\* so it is at least 1, and 1 for a callable with no decision point.
C21_ComplexityCountsDecisions ==
    (Analysed /\ file.kind = "valid") =>
        \A j \in 1 .. Len(CallableRecords(report.analysis)) :
            LET rec == CallableRecords(report.analysis)[j]
                sub == Subtree(file.tree, rec.lineno)
            IN /\ rec.complexity >= 1
               /\ rec.complexity =
                    1 + Cardinality({i \in sub : file.tree[i].kind \in
                            {"If", "While", "For", "AsyncFor", "ExceptHandler"}})
                      + ShortCircuits(file.tree, sub)

\* the members of a sequence
Range(seq) == {seq[i] : i \in 1 .. Len(seq)}

\* C22: global_variables lists exactly the names bound by assignments at
\* module level whose target is a simple name; assignments in the body of a
\* function, method or class, and subscript, attribute and destructuring
\* targets, contribute nothing.
C22_GlobalsAreModuleLevelNames ==
    (Analysed /\ file.kind = "valid") =>
        Range(report.analysis.global_variables)
            = {i \in Nodes(file.tree) :
                  /\ file.tree[i].kind = "Assign"
                  /\ file.tree[i].parent = 0
                  /\ Target(file.tree[i]) = "Name"}

\* C23: every entry of functions is a definition at module top level: no
\* method is in it, and no definition nested in the body of another function
\* or of a method.
C23_FunctionsAreTopLevel ==
    (Analysed /\ file.kind = "valid") =>
        \A j \in 1 .. Len(report.analysis.functions) :
            file.tree[report.analysis.functions[j].lineno].parent = 0

\* C24: for each of the eight combinations of failure and success of the
\* complexity, maintainability and Halstead computations, _calculate_metrics
\* returns a summary in which every failed one has its neutral default
\* (complexity total 1.0 and mean 1.0, maintainability 100.0, Halstead the
\* empty mapping) and every other one its computed value; the mean
\* complexity is 1.0 when the complexity result list is empty.
C24_MetricIsolation ==
    (Analysed /\ file.kind = "valid") =>
        LET m == report.analysis.metrics
            r == file.radon
        IN /\ m # NoMetrics
           /\ ~r.cc.ok => /\ m.cyclomatic_complexity = Float(1, 1)
                          /\ m.average_function_complexity = Float(1, 1)
           /\ r.cc.ok => m.cyclomatic_complexity = Float(Sum(r.cc.v), 1)
           /\ (r.cc.ok /\ r.cc.v # <<>>) =>
                m.average_function_complexity = Float(Sum(r.cc.v), Len(r.cc.v))
           /\ (r.cc.ok /\ r.cc.v = <<>>) => m.average_function_complexity = Float(1, 1)
           /\ ~r.mi.ok => m.maintainability_index = Float(100, 1)
           /\ r.mi.ok => m.maintainability_index = Float(r.mi.v, 1)
           /\ ~r.h.ok => m.halstead_metrics = [empty |-> TRUE]
           /\ r.h.ok => /\ ~m.halstead_metrics.empty
                        /\ m.halstead_metrics.volume = r.h.v

\* complexity fails while the other two succeed
C24_Witness ==
    /\ Analysed /\ file.kind = "valid"
    /\ ~file.radon.cc.ok /\ file.radon.mi.ok /\ file.radon.h.ok
    /\ report.analysis.metrics.cyclomatic_complexity = Float(1, 1)
    /\ report.analysis.metrics.maintainability_index = Float(60, 1)
    /\ ~report.analysis.metrics.halstead_metrics.empty

----------------------------------------------------------------------------
(* A review step by step *)

BriefAt(pc) == brief.pc = pc

\* review_staged_changes, review_unstaged_changes and review_commit fetch the
\* change list; the first two answer an empty one at once
StartReview ==
    /\ BriefAt("idle")
    /\ \E op \in {"staged", "unstaged", "commit"}, ds \in DiffLists, wt \in WorkingTrees :
        IF op \in {"staged", "unstaged"} /\ ds = <<>>
        THEN /\ brief' = [pc |-> "done", op |-> op, diffs |-> ds, files |-> wt,
                          diff_context |-> <<>>, ast_context |-> <<>>, prompt |-> <<>>,
                          context_built |-> FALSE, engine_calls |-> 0]
             /\ outcome' = IF op = "staged" THEN NoChanges ELSE NoUnstagedChanges
        ELSE /\ brief' = [pc |-> "diffs", op |-> op, diffs |-> ds, files |-> wt,
                          diff_context |-> <<>>, ast_context |-> <<>>, prompt |-> <<>>,
                          context_built |-> FALSE, engine_calls |-> 0]
             /\ outcome' = outcome
    /\ UNCHANGED <<reply, file, report, fs, call, w, repo, diffs, scan, target>>

\* _review_diffs: diff_context = self._build_diff_context(diffs)
ComposeDiffContext ==
    /\ BriefAt("diffs")
    /\ brief' = [brief EXCEPT !.pc = "context",
                              !.diff_context = BuildDiffContext(brief.diffs),
                              !.context_built = TRUE]
    /\ UNCHANGED <<reply, outcome, file, report, fs, call, w, repo, diffs, scan, target>>

\* _review_diffs: ast_context = self._analyze_python_files(python_diffs)
ComposeAstContext ==
    /\ BriefAt("context")
    /\ brief' = [brief EXCEPT !.pc = "analysed",
                    !.ast_context =
                        AnalyzePythonFiles(SelectSeq(brief.diffs, IsPythonFile), brief.files)]
    /\ UNCHANGED <<reply, outcome, file, report, fs, call, w, repo, diffs, scan, target>>

\* _review_diffs: review_prompt = self._build_review_prompt(...)
ComposePrompt ==
    /\ BriefAt("analysed")
    /\ brief' = [brief EXCEPT !.pc = "prompt",
                    !.prompt = BuildReviewPrompt(brief.diff_context, brief.ast_context)]
    /\ UNCHANGED <<reply, outcome, file, report, fs, call, w, repo, diffs, scan, target>>

\* the engine call made before the contexts are composed as well
CallEngineEarly ==
    /\ BriefAt("diffs") \/ BriefAt("prompt")
    /\ \E rep \in EngineReplies : reply' = rep
    /\ brief' = [brief EXCEPT !.pc = "called", !.engine_calls = @ + 1]
    /\ UNCHANGED <<outcome, file, report, fs, call, w, repo, diffs, scan, target>>

\* _review_diffs: self.client.messages.create(...) answers or raises
CallEngine ==
    /\ BriefAt("prompt")
    /\ \E rep \in EngineReplies : reply' = rep
    /\ brief' = [brief EXCEPT !.pc = "called", !.engine_calls = @ + 1]
    /\ UNCHANGED <<outcome, file, report, fs, call, w, repo, diffs, scan, target>>

\* _review_diffs: the reply is validated and the result returned
FinishReview ==
    /\ BriefAt("called")
    /\ outcome' = ReviewDiffs(reply)
    /\ brief' = [brief EXCEPT !.pc = "done"]
    /\ UNCHANGED <<reply, file, report, fs, call, w, repo, diffs, scan, target>>

InitBrief ==
    /\ ReviewIdle /\ AnalyzerIdle /\ WriterIdle /\ GitAtRest
    /\ BriefIdle /\ ScanIdle /\ TargetIdle
NextBrief ==
    \/ StartReview \/ ComposeDiffContext \/ ComposeAstContext
    \/ ComposePrompt \/ CallEngine \/ FinishReview
SpecBrief == InitBrief /\ [][NextBrief]_vars

----------------------------------------------------------------------------
(* Claims about the brief, checked under SpecBrief *)

\* the structural sections have been composed
AstContextBuilt == brief.pc \in {"analysed", "prompt", "called", "done"} /\ brief.context_built

\* some function or method of the tree has a return annotation or an
\* annotated parameter
SomeCallableAnnotated(tree) ==
    \E i \in Nodes(tree) :
        tree[i].kind \in DefKinds /\ (HasReturns(tree[i]) \/ HasAnnotatedArg(tree[i]))

\* C27: the structural section of a file carries the "lacks type hints"
\* flag exactly when no function of the file, top-level function or class
\* method, has a return annotation or an annotated parameter; a file whose
\* only annotated callables are methods is not flagged.
C27_LacksHintsFlag ==
    AstContextBuilt =>
        \A i \in 1 .. Len(brief.ast_context) :
            LET sec == brief.ast_context[i]
            IN sec.body = "analysis" =>
                (sec.lacks_type_hints
                    <=> ~SomeCallableAnnotated(brief.files[sec.file_path].tree))

\* the prompt has been composed
PromptBuilt == brief.pc \in {"prompt", "called", "done"} /\ brief.context_built

\* where the sections of one kind stand in the prompt, in ascending order
Positions(kind) == Sorted({i \in 1 .. Len(brief.prompt) : brief.prompt[i].section = kind})

\* the path ends in .py
HasSourceExtension(path) ==
    Len(path) >= 2 /\ path[Len(path)] = "py" /\ path[Len(path) - 1] = "."

\* C29: the brief holds one diff section per ChangeRecord in diff order,
\* then one structural section per ChangeRecord whose path ends in .py
\* (deleted and unreadable files included, as an error section) in the same
\* relative order; every structural section comes after every diff section;
\* and a structural section lists at most the first five functions.
C29_BriefOrder ==
    PromptBuilt =>
        LET dpos == Positions("diff")
            spos == Positions("structural")
            sources == SelectSeq(brief.diffs, LAMBDA d : HasSourceExtension(d.file_path))
        IN /\ Len(dpos) = Len(brief.diffs)
           /\ \A i \in 1 .. Len(dpos) :
                brief.prompt[dpos[i]].file_path = brief.diffs[i].file_path
           /\ Len(spos) = Len(sources)
           /\ \A i \in 1 .. Len(spos) :
                /\ brief.prompt[spos[i]].file_path = sources[i].file_path
                /\ Len(brief.prompt[spos[i]].functions) <= 5
                /\ brief.files[sources[i].file_path].kind = "unreadable"
                     => brief.prompt[spos[i]].body = "parse_errors"
           /\ \A i \in 1 .. Len(dpos) : \A j \in 1 .. Len(spos) : dpos[i] < spos[j]

\* a deleted file and a file of six functions, both changed
C29_Witness ==
    /\ PromptBuilt
    /\ Len(brief.diffs) = 2
    /\ brief.diffs[1].file_path = PathC /\ brief.diffs[2].file_path = PathA
    /\ brief.files[PathC].kind = "unreadable"
    /\ brief.files[PathA].kind = "valid" /\ Len(brief.files[PathA].tree) = 6
    /\ Len(Positions("structural")) = 2
    /\ Len(brief.prompt[Positions("structural")[2]].functions) = 5

\* the review was of an empty list of staged or unstaged changes
NothingToReview ==
    /\ brief.pc # "idle"
    /\ brief.op \in {"staged", "unstaged"}
    /\ brief.diffs = <<>>

\* C30: review_staged_changes and review_unstaged_changes on an empty change
\* list return a ReviewResult with score 100, no issues and a "no changes"
\* summary without calling the engine; the engine is called at most once in
\* a review, and only after the diff context has been composed.
C30_EngineCalledOnceAfterContext ==
    brief.pc # "idle" =>
        /\ NothingToReview =>
              /\ brief.pc = "done"
              /\ brief.engine_calls = 0 /\ ~reply.called
              /\ outcome.status = "returned"
              /\ outcome.result.overall_score = PyInt(100)
              /\ outcome.result.issues = <<>>
              /\ outcome.result.summary \in {PyStr("No staged changes to review."),
                                             PyStr("No unstaged changes to review.")}
        /\ brief.engine_calls <= 1
        /\ reply.called <=> brief.engine_calls = 1
        /\ brief.engine_calls = 1 => brief.context_built

C30_Witness ==
    /\ NothingToReview
    /\ brief.op = "unstaged"
    /\ brief.pc = "done"
    /\ brief.engine_calls = 0
    /\ outcome.status = "returned"
    /\ outcome.result.overall_score = PyInt(100)

----------------------------------------------------------------------------
(* The payload the free-text tier selects, checked under SpecReview *)

\* the text after position start (0-based) up to the next fence, or up to
\* the end of the text when no fence follows
FencedBody(text, start) ==
    LET closing == {i \in (start + 1) .. Len(text) : text[i] = Fence}
    IN IF closing = {} THEN SubSeq(text, start + 1, Len(text))
       ELSE SubSeq(text, start + 1, (CHOOSE i \in closing : \A h \in closing : i <= h) - 1)

\* the first position (1-based) at which a fence stands, labelled or any
FirstFence(text, labelled) ==
    LET at == {i \in 1 .. Len(text) :
                  /\ text[i] = Fence
                  /\ labelled => (i < Len(text) /\ text[i + 1] = Label)}
    IN IF at = {} THEN 0 ELSE CHOOSE i \in at : \A h \in at : i <= h

\* C28: if the reply text holds a fence labelled json, the payload is the
\* text between the first such fence and the next fence; else if it holds
\* any fence, the text between the first fence and the next; else the whole
\* reply; and in every case, an opening fence without a closing one
\* included, the payload is the whole fenced body (white space around it
\* aside), no character of it dropped.
C28_PayloadSelection ==
    (EngineReplied /\ outcome.tier = "free_text") =>
        LET text == ReplyText
            expected ==
                IF FirstFence(text, TRUE) # 0
                THEN FencedBody(text, FirstFence(text, TRUE) + 1)
                ELSE IF FirstFence(text, FALSE) # 0
                THEN FencedBody(text, FirstFence(text, FALSE))
                ELSE text
        IN Strip(JsonText(text)) = Strip(expected)

----------------------------------------------------------------------------
(* test_generator.py: scanning the existing tests for patterns *)

\* A name is a sequence of pieces: "test_one.py" is <<"test_", "one", ".py">>.
StartsWithTest(name) == Len(name) > 0 /\ name[1] = "test_"
EndsWithTestPy(name) ==
    Len(name) > 1 /\ name[Len(name) - 1] = "_test" /\ name[Len(name)] = ".py"
IsPrefixTestFile(name) == StartsWithTest(name) /\ name[Len(name)] = ".py"

\* list(test_path.glob("**/test_*.py")) + list(test_path.glob("**/*_test.py"))
GlobTestFiles(files) ==
    SelectSeq(files, LAMBDA f : IsPrefixTestFile(f.name))
        \o SelectSeq(files, LAMBDA f : EndsWithTestPy(f.name))

\* ASTAnalyzer.find_test_functions over the functions analyze_file returns
FindTestFunctions(f) == SelectSeq(f.functions, LAMBDA func : StartsWithTest(func.name))

\* for imp in analysis.imports: append imp.module unless already listed
RECURSIVE AddImports(_, _)
AddImports(listed, imports) ==
    IF imports = <<>> THEN listed
    ELSE AddImports(IF \E i \in 1 .. Len(listed) : listed[i] = Head(imports)
                    THEN listed ELSE Append(listed, Head(imports)),
                    Tail(imports))

\* for imp in analysis.imports: the last pytest or unittest import wins
RECURSIVE DetectFramework(_, _)
DetectFramework(framework, imports) ==
    IF imports = <<>> THEN framework
    ELSE DetectFramework(IF Head(imports) \in {"pytest", "unittest"}
                         THEN Head(imports) ELSE framework,
                         Tail(imports))

ExamplesPerFile == 2
FilesAnalysed == 3

\* the body of the loop for one test file: a file whose analysis raises
\* leaves the patterns as they are
ScanFile(patterns, f) ==
    IF f.raises THEN patterns
    ELSE [patterns EXCEPT
            !.imports = AddImports(@, f.imports),
            !.examples = IF FindTestFunctions(f) # <<>>
                         THEN @ \o PySlice(FindTestFunctions(f), 0, ExamplesPerFile)
                         ELSE @,
            !.framework = DetectFramework(@, f.imports)]

RECURSIVE ScanFiles(_, _)
ScanFiles(patterns, test_files) ==
    IF test_files = <<>> THEN patterns
    ELSE ScanFiles(ScanFile(patterns, Head(test_files)), Tail(test_files))

EmptyPatterns(framework) ==
    [framework |-> framework, imports |-> <<>>, fixtures |-> <<>>,
     test_structure |-> "", examples |-> <<>>]

DiscoverTestPatterns(framework, test_dir) ==
    IF ~test_dir.exists THEN EmptyPatterns(framework)
    ELSE LET test_files == GlobTestFiles(test_dir.files)
         IN IF test_files = <<>> THEN EmptyPatterns(framework)
            ELSE ScanFiles(EmptyPatterns(framework),
                           PySlice(test_files, 0, FilesAnalysed))

----------------------------------------------------------------------------
(* test_generator.py: the path of the test file for a source file *)

Root == <<"/">>
SrcDir == <<"src">>
TestsDir == <<"tests">>

\* Path(source_file).parts
Parts(source_file) ==
    (IF source_file.absolute THEN <<Root>> ELSE <<>>) \o source_file.segs

\* Path.stem: the final component without its last suffix
Stem(name) ==
    IF Len(name) > 1 /\ name[Len(name)] \in {".py", ".txt"}
    THEN SubSeq(name, 1, Len(name) - 1) ELSE name

\* tuple.index: the first position (0-based) of x in parts
IndexOf(parts, x) ==
    (CHOOSE i \in 1 .. Len(parts) :
        parts[i] = x /\ \A h \in 1 .. (i - 1) : parts[h] # x) - 1

\* Path.joinpath: an absolute component discards what stands before it
RECURSIVE JoinPath(_, _)
JoinPath(base, parts) ==
    IF parts = <<>> THEN base
    ELSE JoinPath(IF Head(parts) = Root THEN <<Root>> ELSE Append(base, Head(parts)),
                  Tail(parts))

RelativeParts(parts) ==
    IF \E i \in 1 .. Len(parts) : parts[i] = SrcDir
    THEN PySlice(parts, IndexOf(parts, SrcDir) + 1, Len(parts))
    ELSE parts

GetTestFilePath(source_file) ==
    LET parts == Parts(source_file)
        relative_parts == RelativeParts(parts)
        test_filename == <<"test_">> \o Stem(parts[Len(parts)]) \o <<".py">>
    IN JoinPath(JoinPath(<<TestsDir>>, PySlice(relative_parts, 0, Len(relative_parts) - 1)),
                <<test_filename>>)

----------------------------------------------------------------------------
(* Inputs of the pattern scan and of the path derivation *)

MaxFiles == 4
MaxDepth == 3

Func(piece) == [name |-> <<"test_", piece>>]
Helper == [name |-> <<"helper">>]

TestFiles ==
    { [name |-> <<"test_", "one", ".py">>, raises |-> FALSE,
       imports |-> <<"pytest", "os">>,
       functions |-> <<Func("a"), Func("b"), Func("c")>>],
      [name |-> <<"two", "_test", ".py">>, raises |-> FALSE,
       imports |-> <<"unittest", "os">>,
       functions |-> <<Helper, Func("d")>>],
      [name |-> <<"test_", "three", ".py">>, raises |-> TRUE,
       imports |-> <<"pytest">>,
       functions |-> <<Func("e")>>],
      [name |-> <<"conftest", ".py">>, raises |-> FALSE,
       imports |-> <<"pytest">>,
       functions |-> <<Func("f"), Func("g")>>],
      [name |-> <<"test_", "five", ".py">>, raises |-> FALSE,
       imports |-> <<>>,
       functions |-> <<Func("h"), Func("i")>>] }

RECURSIVE FileLists(_)
FileLists(n) ==
    IF n = 0 THEN {<<>>}
    ELSE FileLists(n - 1)
         \cup {Append(l, f) : l \in {x \in FileLists(n - 1) : Len(x) = n - 1},
                              f \in TestFiles}

TestDirs ==
    {[exists |-> FALSE, files |-> <<>>]}
        \cup {[exists |-> TRUE, files |-> l] : l \in FileLists(MaxFiles)}

Frameworks == {"pytest", "unittest"}

DirNames == {SrcDir, <<"pkg">>, <<"home">>}
FileNames == {<<"mod", ".py">>, <<"util">>}

RECURSIVE DirLists(_)
DirLists(n) ==
    IF n = 0 THEN {<<>>}
    ELSE DirLists(n - 1)
         \cup {Append(l, d) : l \in {x \in DirLists(n - 1) : Len(x) = n - 1},
                              d \in DirNames}

SourceFiles ==
    {[absolute |-> a, segs |-> Append(dirs, name)] :
        a \in BOOLEAN, dirs \in DirLists(MaxDepth), name \in FileNames}

----------------------------------------------------------------------------
(* TestGenerator._discover_test_patterns, as one step *)

Scan ==
    /\ ScanIdle
    /\ \E framework \in Frameworks, test_dir \in TestDirs :
        scan' = [status |-> "returned", framework |-> framework,
                 test_dir |-> test_dir,
                 patterns |-> DiscoverTestPatterns(framework, test_dir)]
    /\ UNCHANGED <<reply, outcome, file, report, fs, call, w, repo, diffs, brief, target>>

InitScan ==
    /\ ReviewIdle /\ AnalyzerIdle /\ WriterIdle /\ GitAtRest
    /\ BriefIdle /\ ScanIdle /\ TargetIdle
NextScan == Scan
SpecScan == InitScan /\ [][NextScan]_vars

\* C25: after a pattern scan of any test corpus, of which at most the first
\* three matching test files are analysed, the examples list holds at most
\* two test-function definitions in total over all scanned files.
C25_ExamplesAtMostTwoOverall ==
    scan.status = "returned" =>
        Len(scan.patterns.examples) <= 2

----------------------------------------------------------------------------
(* TestGenerator._get_test_file_path, as one step *)

DeriveTestPath ==
    /\ TargetIdle
    /\ \E source_file \in SourceFiles :
        target' = [status |-> "derived", source_file |-> source_file,
                   test_path |-> GetTestFilePath(source_file)]
    /\ UNCHANGED <<reply, outcome, file, report, fs, call, w, repo, diffs, brief, scan>>

InitTarget ==
    /\ ReviewIdle /\ AnalyzerIdle /\ WriterIdle /\ GitAtRest
    /\ BriefIdle /\ ScanIdle /\ TargetIdle
NextTarget == DeriveTestPath
SpecTarget == InitTarget /\ [][NextTarget]_vars

\* the directory segments of the source path that follow the source-root
\* segment, or all of them when the path has no source-root segment
MirroredDirs(source_file) ==
    LET dirs == SubSeq(source_file.segs, 1, Len(source_file.segs) - 1)
        at == {i \in 1 .. Len(dirs) : dirs[i] = SrcDir}
    IN IF at = {} THEN dirs
       ELSE SubSeq(dirs, (CHOOSE i \in at : \A h \in at : i <= h) + 1, Len(dirs))

\* C26: for every source path, relative or absolute, with or without a src
\* segment, the derived test path lies under the tests root, mirrors the
\* directory segments that follow the source-root segment, and ends in
\* test_ + the stem of the source file + .py.
C26_TestPathUnderTests ==
    target.status = "derived" =>
        LET source_file == target.source_file
            name == source_file.segs[Len(source_file.segs)]
        IN target.test_path
              = <<TestsDir>> \o MirroredDirs(source_file)
                    \o << <<"test_">> \o Stem(name) \o <<".py">> >>

====
